---- MODULE Spec2Model ----
(***************************************************************************)
(* Model of the SPX market-maker Greeks backend (backend/exposures.py,     *)
(* backend/greeks.py, backend/interpretation.py, backend/main.py).         *)
(*                                                                         *)
(* Numbers.  Python floats are modelled in fixed point: a finite float x   *)
(* is the integer x * FP (FP = 10000), so 0.0001 is 1 and 0.001 is 10.     *)
(* A value that may be missing or non-finite is a "raw" record             *)
(* [fin, v]; F(n) is the finite float n / FP, and None, NaN, PosInf and    *)
(* NegInf are the four non-finite raws.  Time to expiration is counted in  *)
(* hundredths of a year (TUnit).  Spot prices and strikes are whole index  *)
(* points.                                                                 *)
(***************************************************************************)
EXTENDS Integers, Sequences, FiniteSets, TLC

VARIABLES call, spot_cache, expirations_cache, chain_cache, upstream, resp

vars == <<call, spot_cache, expirations_cache, chain_cache, upstream, resp>>

---------------------------------------------------------------------------
(* Fixed-point scale and raw values *)

FP == 10000

TUnit == 100

F(n) == [fin |-> TRUE, v |-> n]

None == [fin |-> FALSE, v |-> 2]

NaN == [fin |-> FALSE, v |-> 0]

PosInf == [fin |-> FALSE, v |-> 1]

NegInf == [fin |-> FALSE, v |-> -1]

\* a finite float whose square is beyond the largest float (above 1.35e154)
Huge == [fin |-> FALSE, v |-> 3]

IsNone(x) == x = None

IsNaN(x) == x = NaN

IsInf(x) == x = PosInf \/ x = NegInf

IsFinite(x) == x.fin

Abs(n) == IF n < 0 THEN -n ELSE n

Min(a, b) == IF a < b THEN a ELSE b

Max(a, b) == IF a > b THEN a ELSE b

\* float division of two finite values, truncated to the fixed-point grid
TruncDiv(a, b) == IF a >= 0 THEN a \div b ELSE -((-a) \div b)

\* floor of the square root
ISqrt(n) == CHOOSE r \in 0..n : r * r <= n /\ (r + 1) * (r + 1) > n

\* raw <= 0 as Python compares floats (NaN compares false)
\* the comparison is strict
RawLeqZero_strict(x) == (x.fin /\ x.v < 0) \/ x = NegInf

RawLeqZero(x) == (x.fin /\ x.v <= 0) \/ x = NegInf

\* str.lower() on the option kinds the model draws
Lower(s) ==
    CASE s = "CALL" -> "call"
      [] s = "Call" -> "call"
      [] s = "PUT" -> "put"
      [] s = "Put" -> "put"
      [] OTHER -> s

---------------------------------------------------------------------------
(* backend/config.py *)

risk_free_rate == 450

dividend_yield == 0

---------------------------------------------------------------------------
(* backend/greeks.py *)

\* Tabulation of lines 20-26 and of the closed-form expressions on the
\* arguments the handlers draw: in, at and out of the money.  A non-finite
\* spot propagates to every term.
closed_form(S, K, T, r, q, sigma) ==
    IF ~S.fin
    THEN [cdf |-> NaN, cdfneg |-> NaN, gamma |-> NaN, vn |-> NaN, charm |-> NaN]
    ELSE IF S.v > K
    THEN [cdf |-> F(8000), cdfneg |-> F(2000), gamma |-> F(100),
          vn |-> F(2000), charm |-> F(-500)]
    ELSE IF S.v = K
    THEN [cdf |-> F(5500), cdfneg |-> F(4500), gamma |-> F(200),
          vn |-> F(4000), charm |-> F(-300)]
    ELSE [cdf |-> F(2000), cdfneg |-> F(8000), gamma |-> F(100),
          vn |-> F(2000), charm |-> F(500)]

\* The evaluation instant is fixed; a well-formed date is its signed
\* distance from now in TUnit-ths of a year, any other string fails to parse.
Calendar(expiration_date) ==
    CASE expiration_date = "2025-03-17" -> [ok |-> TRUE, diff |-> -165]
      [] expiration_date = "2027-02-05" -> [ok |-> TRUE, diff |-> 25]
      [] expiration_date = "2027-11-05" -> [ok |-> TRUE, diff |-> 100]
      [] expiration_date = "2030-11-05" -> [ok |-> TRUE, diff |-> 400]
      [] expiration_date = "2031-11-05" -> [ok |-> TRUE, diff |-> 500]
      [] expiration_date = "2032-11-05" -> [ok |-> TRUE, diff |-> 600]
      [] expiration_date = "2033-11-05" -> [ok |-> TRUE, diff |-> 700]
      [] expiration_date = "2034-11-05" -> [ok |-> TRUE, diff |-> 800]
      [] expiration_date = "2035-11-05" -> [ok |-> TRUE, diff |-> 900]
      [] expiration_date = "2036-11-05" -> [ok |-> TRUE, diff |-> 1000]
      [] OTHER -> [ok |-> FALSE, diff |-> 0]

calculate_time_to_expiration(expiration_date) ==
    LET parsed == Calendar(expiration_date)
    IN  IF parsed.ok THEN Max(0, parsed.diff) ELSE 0

ZeroGreeks == [delta |-> F(0), gamma |-> F(0), vanna |-> F(0), charm |-> F(0)]

\* ev is the value of the closed-form terms for the arguments at hand:
\* ev.cdf = exp(-qT) N(d1), ev.cdfneg = exp(-qT) N(-d1),
\* ev.gamma = exp(-qT) n(d1) / (S sigma sqrt T), ev.vn = exp(-qT) n(d1) sqrt T
\* and ev.charm the charm expression, each a raw value.
RawNeg(x) ==
    IF x.fin THEN F(-x.v)
    ELSE IF x = PosInf THEN NegInf
    ELSE IF x = NegInf THEN PosInf
    ELSE x

\* an unknown kind falls through to the put formulas
calculate_greeks_default_put(S, K, T, r, q, sigma, option_type, ev) ==
    IF T <= 0 \/ sigma <= 0 \/ RawLeqZero(S) \/ K <= 0
    THEN [raised |-> FALSE, greeks |-> ZeroGreeks]
    ELSE IF Lower(option_type) = "call"
    THEN [raised |-> FALSE,
          greeks |-> [delta |-> ev.cdf, gamma |-> ev.gamma,
                      vanna |-> ev.vn, charm |-> ev.charm]]
    ELSE [raised |-> FALSE,
          greeks |-> [delta |-> RawNeg(ev.cdfneg), gamma |-> ev.gamma,
                      vanna |-> RawNeg(ev.vn), charm |-> ev.charm]]

calculate_greeks(S, K, T, r, q, sigma, option_type, ev) ==
    IF T <= 0 \/ sigma <= 0 \/ RawLeqZero(S) \/ K <= 0
    THEN [raised |-> FALSE, greeks |-> ZeroGreeks]
    ELSE IF Lower(option_type) = "call"
    THEN [raised |-> FALSE,
          greeks |-> [delta |-> ev.cdf, gamma |-> ev.gamma,
                      vanna |-> ev.vn, charm |-> ev.charm]]
    ELSE IF Lower(option_type) = "put"
    THEN [raised |-> FALSE,
          greeks |-> [delta |-> RawNeg(ev.cdfneg), gamma |-> ev.gamma,
                      vanna |-> RawNeg(ev.vn), charm |-> ev.charm]]
    ELSE [raised |-> TRUE, greeks |-> ZeroGreeks]

---------------------------------------------------------------------------
(* backend/exposures.py : calculate_contract_exposures *)

\* the clamp is dropped
validate_greek_unclamped(value, min_val, max_val) ==
    IF IsNone(value) \/ IsNaN(value) \/ IsInf(value)
    THEN 0
    ELSE value.v

validate_greek(value, min_val, max_val) ==
    IF IsNone(value) \/ IsNaN(value) \/ IsInf(value)
    THEN 0
    ELSE Max(min_val, Min(max_val, value.v))

\* x if x is not None else 0.0
OrZero(x) == IF IsNone(x) THEN F(0) ELSE x

LiveDelta(contract) == validate_greek(OrZero(contract.delta), -5 * FP, 5 * FP)

LiveGamma(contract) == validate_greek(OrZero(contract.gamma), -1 * FP, 1 * FP)

LiveTheta(contract) == validate_greek(OrZero(contract.theta), -10 * FP, 10 * FP)

LiveVega(contract) == validate_greek(OrZero(contract.vega), -10 * FP, 10 * FP)

\* the branch condition of line 36: 0.001 is 10 and 0.0001 is 1
\* "and" for "or"
UsesProvided_and(contract) ==
    Abs(LiveDelta(contract)) > 10 /\ Abs(LiveGamma(contract)) > 1

UsesProvided(contract) ==
    Abs(LiveDelta(contract)) > 10 \/ Abs(LiveGamma(contract)) > 1

ProvidedCharm(contract) ==
    LET theta == LiveTheta(contract)
    IN  validate_greek(F(IF Abs(theta) > 10
                         THEN TruncDiv((-theta) * 100, 36525)
                         ELSE 0),
                       -10 * FP, 10 * FP)

\* the gamma * sqrt(T) estimate is dropped
ProvidedVanna_vega_only(contract, T) ==
    LET vega == LiveVega(contract)
    IN  validate_greek(F(IF Abs(vega) > 10 THEN TruncDiv(vega, 10) ELSE 0),
                       -10 * FP, 10 * FP)

ProvidedVanna(contract, T) ==
    LET vega == LiveVega(contract)
        gamma == LiveGamma(contract)
        vanna_estimate ==
            IF Abs(vega) > 10
            THEN TruncDiv(vega, 10)
            ELSE IF T > 0
                 THEN TruncDiv(gamma * ISqrt(T * TUnit), TUnit)
                 ELSE 0
    IN  validate_greek(F(vanna_estimate), -10 * FP, 10 * FP)

ResolveSigma(contract) ==
    LET iv == contract.implied_volatility
    IN  IF IsNone(iv) THEN 2000
        ELSE IF ~(iv.fin /\ 0 < iv.v /\ iv.v < 5 * FP)
             THEN 2000
             ELSE iv.v

ContractGreeks(contract, spot_price, r, q, ev) ==
    LET T == calculate_time_to_expiration(contract.expiration_date)
    IN  IF UsesProvided(contract)
        THEN [delta |-> LiveDelta(contract),
              gamma |-> LiveGamma(contract),
              vanna |-> ProvidedVanna(contract, T),
              charm |-> ProvidedCharm(contract)]
        ELSE LET res == calculate_greeks(spot_price, contract.strike, T, r, q,
                                         ResolveSigma(contract),
                                         contract.option_type, ev)
             IN  IF res.raised
                 THEN [delta |-> 0, gamma |-> 0, vanna |-> 0, charm |-> 0]
                 ELSE [delta |-> validate_greek(res.greeks.delta, -5 * FP, 5 * FP),
                       gamma |-> validate_greek(res.greeks.gamma, -1 * FP, 1 * FP),
                       vanna |-> validate_greek(res.greeks.vanna, -10 * FP, 10 * FP),
                       charm |-> validate_greek(res.greeks.charm, -10 * FP, 10 * FP)]

\* line 114: float ** 2 raises OverflowError when the result is out of
\* range, and the expression stands outside every try block
SquareOverflows(spot_price) == spot_price = Huge

\* (spot_price ** 2) * 100 and spot_price * 100 on a float that may be
\* non-finite
GexMultiplier(spot_price) ==
    IF spot_price.fin THEN F(spot_price.v * spot_price.v * 100)
    ELSE IF IsNaN(spot_price) THEN NaN ELSE PosInf

SpotMultiplier(spot_price) ==
    IF spot_price.fin THEN F(spot_price.v * 100) ELSE spot_price

\* the market-maker sign is dropped
calculate_safe_exposure_unsigned(open_interest, greek_value, multiplier) ==
    IF open_interest < 0 THEN 0
    ELSE IF ~IsFinite(greek_value) THEN 0
    ELSE IF ~IsFinite(multiplier) \/ multiplier.v <= 0 THEN 0
    ELSE open_interest * greek_value.v * multiplier.v

calculate_safe_exposure(open_interest, greek_value, multiplier) ==
    IF open_interest < 0 THEN 0
    ELSE IF ~IsFinite(greek_value) THEN 0
    ELSE IF ~IsFinite(multiplier) \/ multiplier.v <= 0 THEN 0
    ELSE (-open_interest) * greek_value.v * multiplier.v

calculate_contract_exposures(contract, spot_price, r, q, ev) ==
    LET greeks == ContractGreeks(contract, spot_price, r, q, ev)
        open_interest == contract.open_interest
    IN  [exposures |->
            [gex |-> calculate_safe_exposure(open_interest, F(greeks.gamma),
                                             GexMultiplier(spot_price)),
             dex |-> calculate_safe_exposure(open_interest, F(greeks.delta),
                                             SpotMultiplier(spot_price)),
             vex |-> calculate_safe_exposure(open_interest, F(greeks.vanna),
                                             SpotMultiplier(spot_price)),
             cex |-> calculate_safe_exposure(open_interest, F(greeks.charm),
                                             SpotMultiplier(spot_price))],
         greeks |-> greeks,
         \* the OverflowError of line 114 leaves the function; the other
         \* fields are then never seen by the caller
         raised |-> SquareOverflows(spot_price),
         \* which branch of line 36 ran, and the sigma line 70 passed
         source |-> IF UsesProvided(contract) THEN "provided" ELSE "model",
         sigma |-> IF UsesProvided(contract) THEN 0
                   ELSE ResolveSigma(contract)]

---------------------------------------------------------------------------
(* backend/exposures.py : classify_regime *)

classify_regime(value, neutral_threshold) ==
    IF Abs(value) < neutral_threshold THEN "o"
    ELSE IF value > 0 THEN "+" ELSE "-"

---------------------------------------------------------------------------
(* backend/exposures.py : aggregation by strike *)

\* A strike map is the sequence of its entries in insertion order, which is
\* the order a Python dict iterates in.
StrikeIndex(strike_data, strike) ==
    IF \E i \in 1..Len(strike_data) : strike_data[i].strike = strike
    THEN CHOOSE i \in 1..Len(strike_data) : strike_data[i].strike = strike
    ELSE 0

EmptyEntry(strike) ==
    [strike |-> strike, gex |-> 0, dex |-> 0, vex |-> 0, cex |-> 0,
     call_oi |-> 0, put_oi |-> 0, contracts |-> <<>>]

\* the open interest of every contract goes to call_oi
AddContract_all_to_calls(strike_data, contract, res) ==
    LET i == StrikeIndex(strike_data, contract.strike)
        old == IF i = 0 THEN EmptyEntry(contract.strike) ELSE strike_data[i]
        new == [strike |-> old.strike,
                gex |-> old.gex + res.exposures.gex,
                dex |-> old.dex + res.exposures.dex,
                vex |-> old.vex + res.exposures.vex,
                cex |-> old.cex + res.exposures.cex,
                call_oi |-> old.call_oi + contract.open_interest,
                put_oi |-> old.put_oi,
                contracts |-> Append(old.contracts,
                                     [contract |-> contract,
                                      exposures |-> res.exposures,
                                      greeks |-> res.greeks])]
    IN  IF i = 0 THEN Append(strike_data, new)
        ELSE [strike_data EXCEPT ![i] = new]

\* lines 147-162 and 205-220: accumulate one contract into the map
AddContract(strike_data, contract, res) ==
    LET i == StrikeIndex(strike_data, contract.strike)
        old == IF i = 0 THEN EmptyEntry(contract.strike) ELSE strike_data[i]
        isCall == Lower(contract.option_type) = "call"
        new == [strike |-> old.strike,
                gex |-> old.gex + res.exposures.gex,
                dex |-> old.dex + res.exposures.dex,
                vex |-> old.vex + res.exposures.vex,
                cex |-> old.cex + res.exposures.cex,
                call_oi |-> IF isCall THEN old.call_oi + contract.open_interest
                            ELSE old.call_oi,
                put_oi |-> IF isCall THEN old.put_oi
                           ELSE old.put_oi + contract.open_interest,
                contracts |-> Append(old.contracts,
                                     [contract |-> contract,
                                      exposures |-> res.exposures,
                                      greeks |-> res.greeks])]
    IN  IF i = 0 THEN Append(strike_data, new)
        ELSE [strike_data EXCEPT ![i] = new]

ContractResult(contract, spot_price, r, q) ==
    calculate_contract_exposures(
        contract, spot_price, r, q,
        closed_form(spot_price, contract.strike,
                    calculate_time_to_expiration(contract.expiration_date),
                    r, q, ResolveSigma(contract)))

RECURSIVE AggregateFrom(_, _, _, _, _)
AggregateFrom(strike_data, contracts, spot_price, r, q) ==
    IF contracts = <<>> THEN strike_data
    ELSE AggregateFrom(
            AddContract(strike_data, Head(contracts),
                        ContractResult(Head(contracts), spot_price, r, q)),
            Tail(contracts), spot_price, r, q)

aggregate_by_strike(contracts, spot_price, r, q) ==
    AggregateFrom(<<>>, contracts, spot_price, r, q)

\* abs(x) < 1e-10 on the fixed-point grid is x = 0
EffectivelySkipped(exposures) ==
    /\ exposures.gex = 0
    /\ exposures.dex = 0
    /\ exposures.vex = 0
    /\ exposures.cex = 0

RECURSIVE AggregateLoggingFrom(_, _, _, _, _)
AggregateLoggingFrom(strike_data, contracts, spot_price, r, q) ==
    IF contracts = <<>> THEN strike_data
    ELSE LET res == ContractResult(Head(contracts), spot_price, r, q)
         IN  IF EffectivelySkipped(res.exposures)
             THEN AggregateLoggingFrom(strike_data, Tail(contracts),
                                       spot_price, r, q)
             ELSE AggregateLoggingFrom(
                     AddContract(strike_data, Head(contracts), res),
                     Tail(contracts), spot_price, r, q)

aggregate_by_strike_with_logging(contracts, spot_price, r, q) ==
    AggregateLoggingFrom(<<>>, contracts, spot_price, r, q)

---------------------------------------------------------------------------
(* backend/exposures.py : totals and the neutral threshold *)

\* Every integer of magnitude up to MaxExactFloat is a float; above it the
\* floats are the even integers (the model's 2^30 stands for the 2^53 of a
\* double, and values stay below twice that).
MaxExactFloat == 1073741824

\* the sum is not rounded
FloatAdd_exact(a, b) == a + b

\* a + b on floats: the exact sum rounded to the nearest float, a tie going
\* to the one with the even mantissa
FloatAdd(a, b) ==
    LET x == a + b
    IN  IF Abs(x) <= MaxExactFloat \/ x % 2 = 0 THEN x
        ELSE IF (x + 1) % 4 = 0 THEN x + 1 ELSE x - 1

\* lines 233-237: the strikes are visited in the order of the map
RECURSIVE AddStrikesTo(_, _)
AddStrikesTo(total, strike_aggregations) ==
    IF strike_aggregations = <<>> THEN total
    ELSE AddStrikesTo(
             [gex |-> FloatAdd(total.gex, Head(strike_aggregations).gex),
              dex |-> FloatAdd(total.dex, Head(strike_aggregations).dex),
              vex |-> FloatAdd(total.vex, Head(strike_aggregations).vex),
              cex |-> FloatAdd(total.cex, Head(strike_aggregations).cex)],
             Tail(strike_aggregations))

aggregate_all_expirations(strike_aggregations) ==
    AddStrikesTo([gex |-> 0, dex |-> 0, vex |-> 0, cex |-> 0],
                 strike_aggregations)

\* the k-th smallest element of a non-empty sequence
KthSmallest(values, k) ==
    CHOOSE v \in { values[i] : i \in 1..Len(values) } :
        /\ Cardinality({ i \in 1..Len(values) : values[i] < v }) < k
        /\ Cardinality({ i \in 1..Len(values) : values[i] <= v }) >= k

\* the lower middle element stands for the median of an even-length list
TwiceMedian_lower_middle(values) ==
    LET n == Len(values)
    IN  IF n % 2 = 1
        THEN 2 * KthSmallest(values, (n + 1) \div 2)
        ELSE 2 * KthSmallest(values, n \div 2)

\* twice np.median: the middle element counted twice, or the sum of the two
\* middle elements of an even-length list
TwiceMedian(values) ==
    LET n == Len(values)
    IN  IF n % 2 = 1
        THEN 2 * KthSmallest(values, (n + 1) \div 2)
        ELSE KthSmallest(values, n \div 2) + KthSmallest(values, n \div 2 + 1)

\* a / b for a >= 0, rounded up to the fixed-point grid, so that the strict
\* comparison of classify_regime against it is exact for grid values
CeilDiv(a, b) == (a + b - 1) \div b

\* 0.05 * median is (twice the median) / 40
calculate_neutral_threshold(values, epsilon) ==
    IF values = <<>> THEN epsilon
    ELSE LET abs_values == [i \in 1..Len(values) |-> Abs(values[i])]
         IN  Max(epsilon, CeilDiv(TwiceMedian(abs_values), 40))

---------------------------------------------------------------------------
(* backend/interpretation.py *)

\* the default epsilon = 0.05
DefaultEpsilon == 500

classify_exposure_regime(gex, dex, vex, cex, all_values) ==
    LET neutral_threshold == calculate_neutral_threshold(all_values,
                                                         DefaultEpsilon)
        regime == [g |-> classify_regime(gex, neutral_threshold),
                   d |-> classify_regime(dex, neutral_threshold),
                   v |-> classify_regime(vex, neutral_threshold),
                   c |-> classify_regime(cex, neutral_threshold)]
    IN  [regime |-> regime,
         regime_code |-> "G" \o regime.g \o " D" \o regime.d
                         \o " V" \o regime.v \o " C" \o regime.c]

\* AUTO is not among the regimes that let the bullish alignment through
determine_conductivity_auto_not_rising(regime, vix_regime) ==
    LET g == regime.g
        d == regime.d
        v == regime.v
        c == regime.c
    IN  IF g = "-" /\ d = "-" /\ v = "-" /\ c = "-"
        THEN (IF vix_regime \in {"FALLING", "AUTO"}
              THEN "RALLY-CONDUCIVE" ELSE "MIXED")
        ELSE IF g = "-" /\ d = "+" /\ v = "+" /\ c = "+"
        THEN (IF vix_regime \in {"RISING"}
              THEN "SELL-OFF-CONDUCIVE" ELSE "MIXED")
        ELSE IF g = "-" /\ d = "-" /\ v = "+" /\ c = "-"
        THEN "CONDITIONAL_VOID"
        ELSE IF g = "-" /\ d = "+" /\ v = "-" /\ c = "+"
        THEN "BOUNCE_CANDIDATE"
        ELSE IF g = "+" /\ d = "+" /\ v = "+" /\ c = "-"
        THEN "CEILING_MAGNET"
        ELSE IF g = "+" /\ d = "+" /\ v = "-" /\ c = "+"
        THEN "STRUCTURAL_SUPPORT"
        ELSE "MIXED_CHOP"

determine_conductivity(regime, vix_regime) ==
    LET g == regime.g
        d == regime.d
        v == regime.v
        c == regime.c
    IN  IF g = "-" /\ d = "-" /\ v = "-" /\ c = "-"
        THEN (IF vix_regime \in {"FALLING", "AUTO"}
              THEN "RALLY-CONDUCIVE" ELSE "MIXED")
        ELSE IF g = "-" /\ d = "+" /\ v = "+" /\ c = "+"
        THEN (IF vix_regime \in {"RISING", "AUTO"}
              THEN "SELL-OFF-CONDUCIVE" ELSE "MIXED")
        ELSE IF g = "-" /\ d = "-" /\ v = "+" /\ c = "-"
        THEN "CONDITIONAL_VOID"
        ELSE IF g = "-" /\ d = "+" /\ v = "-" /\ c = "+"
        THEN "BOUNCE_CANDIDATE"
        ELSE IF g = "+" /\ d = "+" /\ v = "+" /\ c = "-"
        THEN "CEILING_MAGNET"
        ELSE IF g = "+" /\ d = "+" /\ v = "-" /\ c = "+"
        THEN "STRUCTURAL_SUPPORT"
        ELSE "MIXED_CHOP"

\* the flag pattern has no entry of its own
terrain_map_without_flag_pattern(regime_code) ==
    CASE regime_code = "G+ D+ V+ C-" -> "CEILING/MAGNET"
      [] regime_code = "G- D- V+ C-" -> "CONDITIONAL VOID"
      [] regime_code = "G+ D+ V- C+" -> "STRUCTURAL SUPPORT"
      [] OTHER -> "NEUTRAL"

\* the dict literal of lines 86-93: of two equal keys the later one stays
terrain_map(regime_code) ==
    CASE regime_code = "G+ D+ V+ C-" -> "CEILING/MAGNET"
      [] regime_code = "G- D- V- C+" -> "ACCELERATION ZONE (DOWN)"
      [] regime_code = "G- D- V+ C-" -> "CONDITIONAL VOID"
      [] regime_code = "G+ D+ V- C+" -> "STRUCTURAL SUPPORT"
      [] OTHER -> "NEUTRAL"

\* a strike exactly 1% away still counts as at the money
classify_strike_terrain_inclusive(regime_code, spot_price, strike) ==
    LET pattern_flags == IF regime_code = "G- D- V- C+"
                         THEN <<"MAX_DOWNSIDE_ACCELERATION">> ELSE <<>>
        moneyness == IF 100 * Abs(strike - spot_price) <= spot_price
                     THEN " (AT-THE-MONEY)"
                     ELSE IF strike > spot_price
                          THEN " (OUT-OF-THE-MONEY CALL)"
                          ELSE " (OUT-OF-THE-MONEY PUT)"
    IN  [classification |-> terrain_map(regime_code) \o moneyness,
         pattern_flags |-> pattern_flags]

\* spot_price is a positive finite float here; |strike - spot| / spot < 0.01
classify_strike_terrain(regime_code, spot_price, strike) ==
    LET pattern_flags == IF regime_code = "G- D- V- C+"
                         THEN <<"MAX_DOWNSIDE_ACCELERATION">> ELSE <<>>
        moneyness == IF 100 * Abs(strike - spot_price) < spot_price
                     THEN " (AT-THE-MONEY)"
                     ELSE IF strike > spot_price
                          THEN " (OUT-OF-THE-MONEY CALL)"
                          ELSE " (OUT-OF-THE-MONEY PUT)"
    IN  [classification |-> terrain_map(regime_code) \o moneyness,
         pattern_flags |-> pattern_flags]

---------------------------------------------------------------------------
(* Inputs of the pure functions *)

MaxOI == 2

MaxContracts == 2

Contract(symbol, option_type, strike, expiration_date, oi, iv, dl, gm, th, vg) ==
    [symbol |-> symbol, option_type |-> option_type, strike |-> strike,
     expiration_date |-> expiration_date, open_interest |-> oi,
     implied_volatility |-> iv,
     delta |-> dl, gamma |-> gm, theta |-> th, vega |-> vg]

DeltaValues == {None, NaN, F(10), F(11), F(-6000), F(60000)}

GammaValues == {None, PosInf, F(1), F(2), F(20000)}

ThetaValues == {None, NaN, F(10), F(-20000), F(-500000)}

VegaValues == {None, NegInf, F(10), F(4000), F(500000)}

IVValues == {None, NaN, F(0), F(2500), F(50000), F(60000)}

TypicalEval ==
    [cdf |-> F(6368), cdfneg |-> F(3632), gamma |-> F(188),
     vn |-> F(3750), charm |-> F(-420)]

ClosedFormOutcomes ==
    { TypicalEval,
      [cdf |-> F(10000), cdfneg |-> F(0), gamma |-> F(25000),
       vn |-> F(150000), charm |-> F(-180000)],
      [cdf |-> NaN, cdfneg |-> NaN, gamma |-> NaN, vn |-> NaN, charm |-> NaN],
      [cdf |-> F(5), cdfneg |-> F(9995), gamma |-> PosInf,
       vn |-> F(0), charm |-> NegInf] }

\* contracts that exercise the live-Greeks branch
GreekInputs ==
    { [contract |-> Contract("SPX", "call", 10, d, MaxOI, None, dl, gm, th, vg),
       spot_price |-> F(10), ev |-> TypicalEval] :
        d \in {"invalid-date", "2030-11-05"},
        dl \in DeltaValues, gm \in GammaValues,
        th \in ThetaValues, vg \in VegaValues }

\* contracts that exercise the model branch
ModelInputs ==
    { [contract |-> Contract("SPX", ty, 10, d, MaxOI, iv, dl, gm, None, None),
       spot_price |-> sp, ev |-> ev] :
        ty \in {"call", "PUT", "straddle"},
        d \in {"2025-03-17", "2027-11-05", "invalid-date"},
        iv \in IVValues, dl \in {None, NaN, F(10)}, gm \in {None, F(1)},
        sp \in {F(10), F(0), NaN}, ev \in ClosedFormOutcomes }

\* open interest and spot values around the guards of
\* calculate_safe_exposure
ExposureInputs ==
    { [contract |-> Contract("SPX", "call", 10, "2030-11-05", oi, None,
                             dl, F(200), F(-100000), F(500000)),
       spot_price |-> sp, ev |-> TypicalEval] :
        oi \in -1..MaxOI, dl \in {F(6000), F(-4000), None},
        sp \in {F(0), F(-2), F(10), NaN, PosInf, NegInf} }

\* a spot whose square overflows
OverflowInputs ==
    { [contract |-> Contract("SPX", "call", 10, "2030-11-05", oi, None,
                             dl, F(200), F(-100000), F(500000)),
       spot_price |-> Huge, ev |-> TypicalEval] :
        oi \in 0..MaxOI, dl \in {F(6000), None} }

ContractInputs ==
    GreekInputs \cup ModelInputs \cup ExposureInputs \cup OverflowInputs

RegimeValues ==
    {0, 499, -499, 500, -500, 501, -501, 1000, -1000, 5000, -5000,
     10000, -10000}

RegimeThresholds == {500, 1000, 5000}

\* the contracts the aggregation and the handlers draw chains from
Catalog ==
    { Contract("SPXC10", "call", 10, "2027-11-05", 2, None,
               F(6000), F(200), F(-100000), F(500000)),
      Contract("SPXP10", "put", 10, "2027-11-05", 1, None,
               F(-4000), F(200), F(-80000), F(450000)),
      Contract("SPXC12", "call", 12, "2027-11-05", 0, None,
               F(3000), F(100), F(-50000), F(300000)),
      Contract("SPXP8", "put", 8, "2025-03-17", 2, F(2500),
               None, None, None, None),
      Contract("SPXC11", "call", 11, "2027-11-05", 1, F(2500),
               None, None, None, None),
      Contract("SPXS10", "straddle", 10, "2027-11-05", 2, None,
               F(1000), F(300), F(-20000), F(100000)) }

MaxValues == 4

\* exposure values: 1.0 is FP
ThresholdValues == {0, 10000, -10000, -20000, 10010, 100000}

\* the list of test_neutral_threshold: [1, -1, 2, -2, 10, -10]
TestValues == <<10000, -10000, 20000, -20000, 100000, -100000>>

ThresholdEpsilons == {DefaultEpsilon, 1000}

MaxStrikes == 3

\* strike aggregates: those of test_aggregate_all_expirations and three
\* whose gex is at the edge of the exactly representable range
StrikeAggregates ==
    { [strike |-> 4700, gex |-> -1000, dex |-> 500, vex |-> -200, cex |-> 100],
      [strike |-> 4750, gex |-> -800, dex |-> 300, vex |-> -150, cex |-> 50],
      [strike |-> 4800, gex |-> MaxExactFloat, dex |-> 0, vex |-> 7, cex |-> 0],
      [strike |-> 4850, gex |-> 1, dex |-> -300, vex |-> 0, cex |-> 0],
      [strike |-> 4900, gex |-> -MaxExactFloat, dex |-> 0, vex |-> 0,
       cex |-> -50] }

RECURSIVE SeqsUpTo(_, _)
SeqsUpTo(S, n) ==
    IF n = 0 THEN { <<>> }
    ELSE LET shorter == SeqsUpTo(S, n - 1)
         IN  shorter \cup { Append(q, x) : q \in shorter, x \in S }

---------------------------------------------------------------------------
(* Calls of the pure functions: a call is drawn with its arguments, and   *)
(* the action of its function applies the function to them.               *)

Pending(op, args) == [op |-> op, args |-> args, done |-> FALSE, result |-> <<>>]

Returned(result) == [call EXCEPT !.done = TRUE, !.result = result]

ClassifyRegimeCalls ==
    { Pending("classify_regime",
              [value |-> value, neutral_threshold |-> neutral_threshold]) :
        value \in RegimeValues, neutral_threshold \in RegimeThresholds }

ContractExposuresCalls ==
    { Pending("calculate_contract_exposures", in) : in \in ContractInputs }

CalculateGreeksCalls ==
    { Pending("calculate_greeks",
              [S |-> S, K |-> K, T |-> T, sigma |-> sigma,
               option_type |-> option_type, ev |-> ev]) :
        S \in {F(100), F(0), F(-1), NaN}, K \in {-100, 0, 100},
        T \in {-50, 0, 100}, sigma \in {-2000, 0, 2000},
        option_type \in {"call", "put", "CALL", "Put", "invalid", ""},
        ev \in ClosedFormOutcomes }

AggregateCalls ==
    { Pending(op, [contracts |-> contracts, spot_price |-> F(10)]) :
        op \in {"aggregate_by_strike", "aggregate_by_strike_with_logging"},
        contracts \in SeqsUpTo(Catalog, MaxContracts) }

NeutralThresholdCalls ==
    { Pending("calculate_neutral_threshold",
              [values |-> values, epsilon |-> epsilon]) :
        values \in SeqsUpTo(ThresholdValues, MaxValues) \cup {TestValues},
        epsilon \in ThresholdEpsilons }

CallNeutralThreshold ==
    /\ call.op = "calculate_neutral_threshold" /\ ~call.done
    /\ call' = Returned(calculate_neutral_threshold(call.args.values,
                                                    call.args.epsilon))
    /\ UNCHANGED <<spot_cache, expirations_cache, chain_cache, upstream, resp>>

\* a map has one entry per strike
AggregateAllCalls ==
    { Pending("aggregate_all_expirations", [strike_aggregations |-> m]) :
        m \in { q \in SeqsUpTo(StrikeAggregates, MaxStrikes) :
                  \A i, j \in 1..Len(q) :
                      q[i].strike = q[j].strike => i = j } }

\* the function builds a new total and assigns to nothing of its argument
CallAggregateAll ==
    /\ call.op = "aggregate_all_expirations" /\ ~call.done
    /\ call' = Returned(
                   [total |-> aggregate_all_expirations(
                                  call.args.strike_aggregations),
                    strike_aggregations |-> call.args.strike_aggregations])
    /\ UNCHANGED <<spot_cache, expirations_cache, chain_cache, upstream, resp>>

RegimeSymbols == {"+", "-", "o"}

Regimes == [g : RegimeSymbols, d : RegimeSymbols, v : RegimeSymbols, c : RegimeSymbols]

ConductivityCalls ==
    { Pending("determine_conductivity",
              [regime |-> regime, vix_regime |-> vix_regime]) :
        regime \in Regimes, vix_regime \in {"RISING", "FALLING", "AUTO"} }

CallDetermineConductivity ==
    /\ call.op = "determine_conductivity" /\ ~call.done
    /\ call' = Returned(determine_conductivity(call.args.regime,
                                               call.args.vix_regime))
    /\ UNCHANGED <<spot_cache, expirations_cache, chain_cache, upstream, resp>>

\* f"G{regime.g} D{regime.d} V{regime.v} C{regime.c}"
RegimeCode(regime) ==
    "G" \o regime.g \o " D" \o regime.d \o " V" \o regime.v
        \o " C" \o regime.c

\* spot and strike, in index points
SpotsAndStrikes ==
    { <<1000, strike>> : strike \in {900, 990, 991, 1000, 1009, 1010, 1050} }
    \cup { <<10, 9>>, <<10, 10>>, <<10, 11>> }

TerrainCalls ==
    { Pending("classify_strike_terrain",
              [regime_code |-> RegimeCode(regime),
               spot_price |-> pair[1], strike |-> pair[2]]) :
        regime \in Regimes, pair \in SpotsAndStrikes }

CallClassifyStrikeTerrain ==
    /\ call.op = "classify_strike_terrain" /\ ~call.done
    /\ call' = Returned(classify_strike_terrain(call.args.regime_code,
                                                call.args.spot_price,
                                                call.args.strike))
    /\ UNCHANGED <<spot_cache, expirations_cache, chain_cache, upstream, resp>>

CallClassifyRegime ==
    /\ call.op = "classify_regime" /\ ~call.done
    /\ call' = Returned(classify_regime(call.args.value,
                                        call.args.neutral_threshold))
    /\ UNCHANGED <<spot_cache, expirations_cache, chain_cache, upstream, resp>>

CallContractExposures ==
    /\ call.op = "calculate_contract_exposures" /\ ~call.done
    /\ call' = Returned(calculate_contract_exposures(
                            call.args.contract, call.args.spot_price,
                            risk_free_rate, dividend_yield, call.args.ev))
    /\ UNCHANGED <<spot_cache, expirations_cache, chain_cache, upstream, resp>>

CallCalculateGreeks ==
    /\ call.op = "calculate_greeks" /\ ~call.done
    /\ call' = Returned(calculate_greeks(
                            call.args.S, call.args.K, call.args.T,
                            risk_free_rate, dividend_yield, call.args.sigma,
                            call.args.option_type, call.args.ev))
    /\ UNCHANGED <<spot_cache, expirations_cache, chain_cache, upstream, resp>>

CallAggregateByStrike ==
    /\ call.op = "aggregate_by_strike" /\ ~call.done
    /\ call' = Returned(aggregate_by_strike(
                            call.args.contracts, call.args.spot_price,
                            risk_free_rate, dividend_yield))
    /\ UNCHANGED <<spot_cache, expirations_cache, chain_cache, upstream, resp>>

CallAggregateByStrikeWithLogging ==
    /\ call.op = "aggregate_by_strike_with_logging" /\ ~call.done
    /\ call' = Returned(aggregate_by_strike_with_logging(
                            call.args.contracts, call.args.spot_price,
                            risk_free_rate, dividend_yield))
    /\ UNCHANGED <<spot_cache, expirations_cache, chain_cache, upstream, resp>>

InitCalc ==
    /\ call \in ClassifyRegimeCalls \cup ContractExposuresCalls
                \cup CalculateGreeksCalls \cup AggregateCalls
                \cup NeutralThresholdCalls \cup AggregateAllCalls
                \cup ConductivityCalls \cup TerrainCalls
    /\ spot_cache = <<>>
    /\ expirations_cache = <<>>
    /\ chain_cache = <<>>
    /\ upstream = <<>>
    /\ resp = [op |-> "none"]

NextCalc ==
    \/ CallClassifyRegime
    \/ CallContractExposures
    \/ CallCalculateGreeks
    \/ CallAggregateByStrike
    \/ CallAggregateByStrikeWithLogging
    \/ CallNeutralThreshold
    \/ CallAggregateAll
    \/ CallDetermineConductivity
    \/ CallClassifyStrikeTerrain

SpecCalc == InitCalc /\ [][NextCalc]_vars

---------------------------------------------------------------------------
(* backend/main.py : caches and upstream calls *)

\* The three TTL caches, threaded through a handler as it runs.
CacheState ==
    [spot_cache |-> spot_cache,
     expirations_cache |-> expirations_cache,
     chain_cache |-> chain_cache]

\* cache[key] = value
Put(cache, key, value) ==
    [k \in DOMAIN cache \cup {key} |-> IF k = key THEN value ELSE cache[k]]

get_spot(st) ==
    IF "spot" \in DOMAIN st.spot_cache
    THEN [ok |-> TRUE, last |-> st.spot_cache["spot"], st |-> st]
    ELSE IF upstream.quote.ok
    THEN [ok |-> TRUE, last |-> upstream.quote.last,
          st |-> [st EXCEPT !.spot_cache =
                      Put(st.spot_cache, "spot", upstream.quote.last)]]
    ELSE [ok |-> FALSE, last |-> 0, st |-> st]

get_expirations(st) ==
    IF "expirations" \in DOMAIN st.expirations_cache
    THEN [ok |-> TRUE, expirations |-> st.expirations_cache["expirations"],
          st |-> st]
    ELSE IF upstream.expirations.ok
    THEN [ok |-> TRUE, expirations |-> upstream.expirations.dates,
          st |-> [st EXCEPT !.expirations_cache =
                      Put(st.expirations_cache, "expirations",
                          upstream.expirations.dates)]]
    ELSE [ok |-> FALSE, expirations |-> <<>>, st |-> st]

\* a or b on two optional floats: a unless it is None or 0
OrElse(a, b) == IF IsNone(a) \/ a = F(0) THEN b ELSE a

\* lines 396-412: an option of the chain becomes an OptionContract
ToContract(opt, expiration) ==
    [symbol |-> opt.symbol,
     option_type |-> opt.option_type,
     strike |-> opt.strike,
     expiration_date |-> expiration,
     open_interest |-> opt.open_interest,
     implied_volatility |-> OrElse(opt.mid_iv, opt.smv_vol),
     delta |-> opt.delta, gamma |-> opt.gamma,
     theta |-> opt.theta, vega |-> opt.vega]

\* spot_price * 0.7 <= strike <= spot_price * 1.3
WithinFilter(opt, spot_price) ==
    /\ 7 * spot_price <= 10 * opt.strike
    /\ 10 * opt.strike <= 13 * spot_price

get_chain_data(expiration, spot_price, st) ==
    LET cache_key == "chain_" \o expiration
    IN  IF cache_key \in DOMAIN st.chain_cache
        THEN [contracts |-> st.chain_cache[cache_key], st |-> st]
        ELSE IF expiration \notin DOMAIN upstream.chains
                \/ ~upstream.chains[expiration].ok
        THEN [contracts |-> <<>>, st |-> st]
        ELSE LET options ==
                     SelectSeq(upstream.chains[expiration].options,
                               LAMBDA opt : WithinFilter(opt, spot_price))
                 contracts == [i \in 1..Len(options) |->
                                  ToContract(options[i], expiration)]
             IN  [contracts |-> contracts,
                  st |-> [st EXCEPT !.chain_cache =
                              Put(st.chain_cache, cache_key, contracts)]]

---------------------------------------------------------------------------
(* backend/main.py : get_exposures *)

\* lines 138-146: merge one expiration's strike map into the running one
RECURSIVE MergeStrikes(_, _)
MergeStrikes(all_strike_data, exp_strikes) ==
    IF exp_strikes = <<>> THEN all_strike_data
    ELSE LET data == Head(exp_strikes)
             i == StrikeIndex(all_strike_data, data.strike)
             merged ==
                 IF i = 0 THEN Append(all_strike_data, data)
                 ELSE [all_strike_data EXCEPT
                          ![i].gex = @ + data.gex,
                          ![i].dex = @ + data.dex,
                          ![i].vex = @ + data.vex,
                          ![i].cex = @ + data.cex,
                          ![i].call_oi = @ + data.call_oi,
                          ![i].put_oi = @ + data.put_oi]
         IN  MergeStrikes(merged, Tail(exp_strikes))

\* lines 127-149: the loop over the first expirations
RECURSIVE AllExpirationsFrom(_, _, _, _)
AllExpirationsFrom(all_strike_data, expirations, spot_price, st) ==
    IF expirations = <<>>
    THEN [strike_aggregations |-> all_strike_data, st |-> st]
    ELSE LET chain == get_chain_data(Head(expirations), spot_price, st)
             exp_strikes == aggregate_by_strike_with_logging(
                                chain.contracts, F(spot_price),
                                risk_free_rate, dividend_yield)
         IN  AllExpirationsFrom(MergeStrikes(all_strike_data, exp_strikes),
                                Tail(expirations), spot_price, chain.st)

FirstN(seq, n) == SubSeq(seq, 1, Min(n, Len(seq)))

\* one expiration more is visited
StrikeAggregations_first_six(expiration, spot_price, st) ==
    IF expiration = "ALL"
    THEN LET exp_response == get_expirations(st)
         IN  IF ~exp_response.ok
             THEN [ok |-> FALSE, strike_aggregations |-> <<>>,
                   st |-> exp_response.st]
             ELSE LET all == AllExpirationsFrom(
                                 <<>>, FirstN(exp_response.expirations, 6),
                                 spot_price, exp_response.st)
                  IN  [ok |-> TRUE,
                       strike_aggregations |-> all.strike_aggregations,
                       st |-> all.st]
    ELSE LET chain == get_chain_data(expiration, spot_price, st)
         IN  [ok |-> TRUE,
              strike_aggregations |->
                  aggregate_by_strike_with_logging(
                      chain.contracts, F(spot_price),
                      risk_free_rate, dividend_yield),
              st |-> chain.st]

\* lines 120-162
StrikeAggregations(expiration, spot_price, st) ==
    IF expiration = "ALL"
    THEN LET exp_response == get_expirations(st)
         IN  IF ~exp_response.ok
             THEN [ok |-> FALSE, strike_aggregations |-> <<>>,
                   st |-> exp_response.st]
             ELSE LET all == AllExpirationsFrom(
                                 <<>>, FirstN(exp_response.expirations, 5),
                                 spot_price, exp_response.st)
                  IN  [ok |-> TRUE,
                       strike_aggregations |-> all.strike_aggregations,
                       st |-> all.st]
    ELSE LET chain == get_chain_data(expiration, spot_price, st)
         IN  [ok |-> TRUE,
              strike_aggregations |->
                  aggregate_by_strike_with_logging(
                      chain.contracts, F(spot_price),
                      risk_free_rate, dividend_yield),
              st |-> chain.st]

\* all_exposure_values after the first n strikes have been visited
RECURSIVE ExposureValues(_, _)
ExposureValues(strike_aggregations, n) ==
    IF n = 0 THEN <<>>
    ELSE ExposureValues(strike_aggregations, n - 1)
         \o << strike_aggregations[n].gex, strike_aggregations[n].dex,
               strike_aggregations[n].vex, strike_aggregations[n].cex >>

StrikeData(data, cls, terrain) ==
    [strike |-> data.strike,
     gex |-> data.gex, dex |-> data.dex,
     vex |-> data.vex, cex |-> data.cex,
     regime |-> cls.regime, regime_code |-> cls.regime_code,
     classification |-> terrain.classification,
     pattern_flags |-> terrain.pattern_flags,
     call_oi |-> data.call_oi, put_oi |-> data.put_oi]

\* lines 180-184: the terrain of a classified strike
StrikeDataClassified(data, cls, spot_price) ==
    StrikeData(data, cls,
               classify_strike_terrain(cls.regime_code, spot_price,
                                       data.strike))

\* lines 169-177: the strike is classified against the exposure values
\* collected so far
StrikeDataOf(data, all_exposure_values, spot_price) ==
    StrikeDataClassified(
        data,
        classify_exposure_regime(data.gex, data.dex, data.vex, data.cex,
                                 all_exposure_values),
        spot_price)

\* lines 169-204: the StrikeData of the i-th strike visited
StrikeDataAt(strike_aggregations, i, spot_price) ==
    StrikeDataOf(strike_aggregations[i],
                 ExposureValues(strike_aggregations, i), spot_price)

AggregateClassified(aggregate_exposures, cls, vix_regime_used) ==
    [gex |-> aggregate_exposures.gex, dex |-> aggregate_exposures.dex,
     vex |-> aggregate_exposures.vex, cex |-> aggregate_exposures.cex,
     regime |-> cls.regime, regime_code |-> cls.regime_code,
     conductivity |-> determine_conductivity(cls.regime, vix_regime_used)]

\* lines 208-216
AggregateOf(aggregate_exposures, all_exposure_values, vix_regime_used) ==
    AggregateClassified(
        aggregate_exposures,
        classify_exposure_regime(
            aggregate_exposures.gex, aggregate_exposures.dex,
            aggregate_exposures.vex, aggregate_exposures.cex,
            all_exposure_values),
        vix_regime_used)

\* lines 207-226
AggregateData(strike_aggregations, vix_regime_used) ==
    AggregateOf(aggregate_all_expirations(strike_aggregations),
                ExposureValues(strike_aggregations, Len(strike_aggregations)),
                vix_regime_used)

Raised(status, detail, st) ==
    [status |-> status, detail |-> detail, body |-> <<>>, st |-> st]

ValidVixRegimes == {"RISING", "FALLING", "AUTO"}

\* lines 165-246: the response built from the strike aggregations; the 503
\* of line 229 is raised inside the try block and re-raised by line 253
ExposuresOfStrikes(expiration, vix_regime, spot_price, strike_aggregations, st) ==
    IF Len(strike_aggregations) > 0
    THEN [status |-> 200, detail |-> "",
          body |-> [spot |-> spot_price,
                    expiration |-> expiration,
                    aggregate |->
                        AggregateData(
                            strike_aggregations,
                            IF vix_regime = "AUTO" THEN "FALLING"
                            ELSE vix_regime),
                    vix_regime_used |->
                        IF vix_regime = "AUTO" THEN "FALLING" ELSE vix_regime,
                    vix_warning |-> vix_regime = "AUTO",
                    strikes |->
                        [i \in 1..Len(strike_aggregations) |->
                            StrikeDataAt(strike_aggregations, i, spot_price)]],
          st |-> st]
    ELSE Raised(500, "Failed to calculate exposures", st)

\* lines 120-162 have run
ExposuresOfAggregations(expiration, vix_regime, spot_price, agg) ==
    IF ~agg.ok
    THEN Raised(500, "Failed to calculate exposures", agg.st)
    ELSE ExposuresOfStrikes(expiration, vix_regime, spot_price,
                            agg.strike_aggregations, agg.st)

\* lines 114-116 have run
ExposuresAtSpot(expiration, vix_regime, spot_response) ==
    IF ~spot_response.ok
    THEN Raised(500, "Failed to calculate exposures", spot_response.st)
    ELSE ExposuresOfAggregations(
             expiration, vix_regime, spot_response.last,
             StrikeAggregations(expiration, spot_response.last,
                                spot_response.st))

get_exposures(expiration, vix_regime, st) ==
    IF vix_regime \notin ValidVixRegimes
    THEN Raised(400, "vix_regime must be RISING, FALLING, or AUTO", st)
    ELSE ExposuresAtSpot(expiration, vix_regime, get_spot(st))

---------------------------------------------------------------------------
(* backend/main.py : get_exposures_matrix *)

ValidMetrics == {"GEX", "DEX", "VEX", "CEX"}

\* every metric reads gex
MetricValue_gex_only(strike_data, metric) ==
    strike_data.gex

\* getattr(strike_data, metric.lower())
MetricValue(strike_data, metric) ==
    CASE metric = "GEX" -> strike_data.gex
      [] metric = "DEX" -> strike_data.dex
      [] metric = "VEX" -> strike_data.vex
      [] metric = "CEX" -> strike_data.cex

\* str(strike) of a float holding a whole number
StrikeKey(strike) == ToString(strike) \o ".0"

StrikeMatrixDetail(strike_data) ==
    [regime_code |-> strike_data.regime_code,
     classification |-> strike_data.classification,
     pattern_flags |-> strike_data.pattern_flags,
     gex |-> strike_data.gex, dex |-> strike_data.dex,
     vex |-> strike_data.vex, cex |-> strike_data.cex,
     call_oi |-> strike_data.call_oi, put_oi |-> strike_data.put_oi]

\* the detail of a strike is overwritten by every expiration that has it
RECURSIVE CollectStrikes_last_wins(_, _, _)
CollectStrikes_last_wins(acc, strikes, metric) ==
    IF strikes = <<>> THEN acc
    ELSE LET strike_data == Head(strikes)
             strike == strike_data.strike
             key == StrikeKey(strike)
         IN  CollectStrikes_last_wins(
                 [strike_exposures |->
                      Put(acc.strike_exposures, strike,
                          MetricValue(strike_data, metric)),
                  all_strikes |-> acc.all_strikes \cup {strike},
                  strike_details_map |->
                      Put(acc.strike_details_map, key,
                          StrikeMatrixDetail(strike_data))],
                 Tail(strikes), metric)

\* lines 305-323: the strikes of one expiration's response
RECURSIVE CollectStrikes(_, _, _)
CollectStrikes(acc, strikes, metric) ==
    IF strikes = <<>> THEN acc
    ELSE LET strike_data == Head(strikes)
             strike == strike_data.strike
             key == StrikeKey(strike)
         IN  CollectStrikes(
                 [strike_exposures |->
                      Put(acc.strike_exposures, strike,
                          MetricValue(strike_data, metric)),
                  all_strikes |-> acc.all_strikes \cup {strike},
                  strike_details_map |->
                      IF key \notin DOMAIN acc.strike_details_map
                      THEN Put(acc.strike_details_map, key,
                               StrikeMatrixDetail(strike_data))
                      ELSE acc.strike_details_map],
                 Tail(strikes), metric)

StoreExpiration(acc, exp, got, st) ==
    [acc |-> [expiration_data |->
                  Put(acc.expiration_data, exp, got.strike_exposures),
              all_strikes |-> got.all_strikes,
              strike_details_map |-> got.strike_details_map],
     st |-> st]

\* lines 299-330: one expiration; when its get_exposures raises, the except
\* clause leaves no entry in expiration_data
CollectExpiration(acc, exp, exp_data, metric) ==
    IF exp_data.status # 200
    THEN [acc |-> acc, st |-> exp_data.st]
    ELSE StoreExpiration(
             acc, exp,
             CollectStrikes([strike_exposures |-> <<>>,
                             all_strikes |-> acc.all_strikes,
                             strike_details_map |-> acc.strike_details_map],
                            exp_data.body.strikes, metric),
             exp_data.st)

\* lines 298-330: the loop over the expirations
RECURSIVE MatrixLoop(_, _, _, _)
MatrixLoop(loop, expirations, metric, vix_regime) ==
    IF expirations = <<>> THEN loop
    ELSE MatrixLoop(
             CollectExpiration(
                 loop.acc, Head(expirations),
                 get_exposures(Head(expirations), vix_regime, loop.st),
                 metric),
             Tail(expirations), metric, vix_regime)

RECURSIVE SortedSeq(_)
SortedSeq(S) ==
    IF S = {} THEN <<>>
    ELSE LET m == CHOOSE x \in S : \A y \in S : x <= y
         IN  <<m>> \o SortedSeq(S \ {m})

\* dict.get(key, default)
Get(map, key, default) == IF key \in DOMAIN map THEN map[key] ELSE default

\* a failed expiration contributes an empty row
MatrixRow_empty_on_failure(expiration_data, exp, common_strikes) ==
    IF exp \in DOMAIN expiration_data
    THEN [j \in 1..Len(common_strikes) |->
             Get(expiration_data[exp], common_strikes[j], 0)]
    ELSE <<>>

\* lines 339-348: one row of the grid
MatrixRow(expiration_data, exp, common_strikes) ==
    IF exp \in DOMAIN expiration_data
    THEN [j \in 1..Len(common_strikes) |->
             Get(expiration_data[exp], common_strikes[j], 0)]
    ELSE [j \in 1..Len(common_strikes) |-> 0]

\* only the details of the strikes of the grid are returned
MatrixOfStrikes_details_of_grid(metric, vix_regime, spot_price, all_expirations, common_strikes, loop) ==
    [status |-> 200, detail |-> "",
     body |-> [spot |-> spot_price,
               metric |-> metric,
               x_expirations |-> all_expirations,
               y_strikes |-> common_strikes,
               z |-> [i \in 1..Len(all_expirations) |->
                         MatrixRow(loop.acc.expiration_data,
                                   all_expirations[i], common_strikes)],
               strike_details |->
                   [key \in { StrikeKey(common_strikes[j]) :
                                 j \in 1..Len(common_strikes) } |->
                       loop.acc.strike_details_map[key]],
               vix_regime_used |->
                   IF vix_regime = "AUTO" THEN "FALLING" ELSE vix_regime,
               vix_warning |-> vix_regime = "AUTO"],
     st |-> loop.st]

\* lines 337-361: the grid over the sorted strikes
MatrixOfStrikes(metric, vix_regime, spot_price, all_expirations, common_strikes, loop) ==
    [status |-> 200, detail |-> "",
     body |-> [spot |-> spot_price,
               metric |-> metric,
               x_expirations |-> all_expirations,
               y_strikes |-> common_strikes,
               z |-> [i \in 1..Len(all_expirations) |->
                         MatrixRow(loop.acc.expiration_data,
                                   all_expirations[i], common_strikes)],
               strike_details |-> loop.acc.strike_details_map,
               vix_regime_used |->
                   IF vix_regime = "AUTO" THEN "FALLING" ELSE vix_regime,
               vix_warning |-> vix_regime = "AUTO"],
     st |-> loop.st]

\* every strike is kept
MatrixOfLoop_without_limit(metric, vix_regime, spot_price, all_expirations, loop) ==
    MatrixOfStrikes(metric, vix_regime, spot_price, all_expirations,
                    SortedSeq(loop.acc.all_strikes), loop)

\* line 333
MatrixOfLoop(metric, vix_regime, spot_price, all_expirations, loop) ==
    MatrixOfStrikes(metric, vix_regime, spot_price, all_expirations,
                    FirstN(SortedSeq(loop.acc.all_strikes), 25), loop)

\* lines 290-330
MatrixOfExpirations(metric, vix_regime, spot_price, all_expirations, st) ==
    MatrixOfLoop(metric, vix_regime, spot_price, all_expirations,
                 MatrixLoop([acc |-> [expiration_data |-> <<>>,
                                      all_strikes |-> {},
                                      strike_details_map |-> <<>>],
                             st |-> st],
                            all_expirations, metric, vix_regime))

\* lines 286-288 have run
MatrixOfResponse(metric, vix_regime, spot_price, exp_response) ==
    IF ~exp_response.ok
    THEN Raised(500, "Failed to generate matrix", exp_response.st)
    ELSE MatrixOfExpirations(metric, vix_regime, spot_price,
                             FirstN(exp_response.expirations, 8),
                             exp_response.st)

\* lines 282-284 have run
MatrixAtSpot(metric, vix_regime, spot_response) ==
    IF ~spot_response.ok
    THEN Raised(500, "Failed to generate matrix", spot_response.st)
    ELSE MatrixOfResponse(metric, vix_regime, spot_response.last,
                          get_expirations(spot_response.st))

get_exposures_matrix(metric, expiration, vix_regime, st) ==
    IF metric \notin ValidMetrics
    THEN Raised(400, "metric must be GEX, DEX, VEX, or CEX", st)
    ELSE IF expiration # "ALL"
    THEN Raised(400, "Matrix endpoint only supports expiration=ALL", st)
    ELSE IF vix_regime \notin ValidVixRegimes
    THEN Raised(400, "vix_regime must be RISING, FALLING, or AUTO", st)
    ELSE MatrixAtSpot(metric, vix_regime, get_spot(st))

---------------------------------------------------------------------------
(* The market-data provider and the requests *)

MaxExpirations == 2

ExpirationDates == <<"2027-02-05", "2027-11-05", "2030-11-05", "2031-11-05">>

Option(symbol, option_type, strike, oi, mid_iv, smv_vol, dl, gm, th, vg) ==
    [symbol |-> symbol, option_type |-> option_type, strike |-> strike,
     open_interest |-> oi, mid_iv |-> mid_iv, smv_vol |-> smv_vol,
     delta |-> dl, gamma |-> gm, theta |-> th, vega |-> vg]

OptC10 == Option("SPXC10", "call", 10, 2, None, None, F(6000), F(200), F(-100000), F(500000))

OptP10 == Option("SPXP10", "put", 10, 1, None, None, F(-4000), F(200), F(-80000), F(450000))

OptC9 == Option("SPXC9", "call", 9, 2, F(0), F(1800), F(9000), F(1000), F(-100000), F(500000))

OptC11 == Option("SPXC11", "call", 11, 1, None, F(2500), None, None, None, None)

OptC12 == Option("SPXC12", "call", 12, 0, F(2200), None, F(3000), F(100), F(-50000), F(300000))

OptC20 == Option("SPXC20", "call", 20, 2, None, None, F(500), F(10), F(-1000), F(1000))

ChainError == [ok |-> FALSE, options |-> <<>>]

ChainOf(options) == [ok |-> TRUE, options |-> options]

ChainChoices ==
    { ChainError,
      ChainOf(<<>>),
      ChainOf(<<OptC12>>),
      ChainOf(<<OptC10, OptP10, OptC9, OptC20>>),
      ChainOf(<<OptC11, OptC10, OptC12>>) }

DatesOf(n) == { ExpirationDates[i] : i \in 1..n }

\* A provider with more expirations than the matrix visits and more strikes
\* than the grid keeps.
WideDates ==
    ExpirationDates
    \o <<"2032-11-05", "2033-11-05", "2034-11-05", "2035-11-05", "2036-11-05">>

WideSpot == 100

WideOption(strike) ==
    Option("SPXW" \o ToString(strike),
           IF strike % 2 = 0 THEN "put" ELSE "call",
           strike, 1 + (strike % 2), None, None,
           F(IF strike % 2 = 0 THEN -100 ELSE 100), F(2), F(-10000), None)

\* the chain of the i-th date: strikes eight apart, highest first; the
\* second date repeats a strike of the first, the third cannot be fetched
\* and the ninth lies past the expirations the matrix visits
WideChain(i) ==
    IF i = 3 THEN ChainError
    ELSE IF i = 9 THEN ChainOf(<<WideOption(72), WideOption(71)>>)
    ELSE ChainOf([k \in 1..5 |-> WideOption(100 - (i - 1) - 8 * (k - 1))]
                 \o (IF i = 2 THEN <<WideOption(100)>> ELSE <<>>))

WideScenario ==
    [quote |-> [ok |-> TRUE, last |-> WideSpot],
     expirations |-> [ok |-> TRUE, dates |-> WideDates],
     chains |-> [date \in { WideDates[i] : i \in 1..Len(WideDates) } |->
                    WideChain(CHOOSE i \in 1..Len(WideDates) :
                                  WideDates[i] = date)]]

\* A put whose live Greeks give a strike, and an aggregate, of regime
\* (G-, D+, V+, C+).
OptP11 == Option("SPXP11", "put", 11, 1, None, None, F(-4000), F(200), F(80000), F(-450000))

BullishScenario ==
    [quote |-> [ok |-> TRUE, last |-> 10],
     expirations |-> [ok |-> TRUE, dates |-> <<ExpirationDates[1]>>],
     chains |-> [date \in {ExpirationDates[1]} |-> ChainOf(<<OptP11>>)]]

\* what the provider answers: a quote, the expiration dates and one chain
\* per date
Scenarios ==
    { [quote |-> [ok |-> FALSE, last |-> 0],
       expirations |-> [ok |-> TRUE, dates |-> <<>>],
       chains |-> <<>>],
      [quote |-> [ok |-> TRUE, last |-> 10],
       expirations |-> [ok |-> FALSE, dates |-> <<>>],
       chains |-> <<>>] }
    \cup
    UNION { { [quote |-> [ok |-> TRUE, last |-> 10],
               expirations |-> [ok |-> TRUE,
                                dates |-> SubSeq(ExpirationDates, 1, n)],
               chains |-> chains] :
                chains \in [DatesOf(n) -> ChainChoices] } :
            n \in 0..MaxExpirations }
    \cup { WideScenario, BullishScenario }

Responded(op, args, r) ==
    [op |-> op, args |-> args, status |-> r.status, detail |-> r.detail,
     body |-> r.body]

SetCaches(st) ==
    /\ spot_cache' = st.spot_cache
    /\ expirations_cache' = st.expirations_cache
    /\ chain_cache' = st.chain_cache

GetSpot ==
    /\ SetCaches(get_spot(CacheState).st)
    /\ UNCHANGED <<call, upstream, resp>>

GetExpirations ==
    /\ SetCaches(get_expirations(CacheState).st)
    /\ UNCHANGED <<call, upstream, resp>>

ExposuresRequests ==
    { [expiration |-> expiration, vix_regime |-> vix_regime] :
        expiration \in DatesOf(MaxExpirations) \cup {"ALL"},
        vix_regime \in {"AUTO", "RISING"} }
    \cup { [expiration |-> "ALL", vix_regime |-> "SIDEWAYS"] }

MatrixRequests ==
    { [metric |-> "GEX", expiration |-> "ALL", vix_regime |-> "AUTO"],
      [metric |-> "CEX", expiration |-> "ALL", vix_regime |-> "RISING"],
      [metric |-> "THETA", expiration |-> "ALL", vix_regime |-> "AUTO"],
      [metric |-> "GEX", expiration |-> "2027-02-05", vix_regime |-> "AUTO"],
      [metric |-> "GEX", expiration |-> "ALL", vix_regime |-> "SIDEWAYS"] }

\* the handler's response goes out and its cache writes stay
Respond(op, args, r) ==
    /\ resp' = Responded(op, args, r)
    /\ SetCaches(r.st)

\* response_model=ExposuresResponse (main.py:94, models.py:70-77): the
\* dictionary the handler returns is validated into the response model,
\* which keeps the model's fields and ignores every other key
ExposuresResponseFields ==
    {"spot", "expiration", "aggregate", "vix_regime_used", "strikes"}

ExposuresResponse(r) ==
    IF r.status # 200 THEN r
    ELSE [r EXCEPT !.body = [f \in DOMAIN r.body \cap ExposuresResponseFields |->
                                r.body[f]]]

GetExposures ==
    \E req \in ExposuresRequests :
        /\ Respond("get_exposures", req,
                   ExposuresResponse(
                       get_exposures(req.expiration, req.vix_regime,
                                     CacheState)))
        /\ UNCHANGED <<call, upstream>>

GetExposuresMatrix ==
    \E req \in MatrixRequests :
        /\ Respond("get_exposures_matrix", req,
                   get_exposures_matrix(req.metric, req.expiration,
                                        req.vix_regime, CacheState))
        /\ UNCHANGED <<call, upstream>>

\* TTLCache: the entries have outlived cache_ttl_seconds
CachesExpire ==
    /\ spot_cache' = <<>>
    /\ expirations_cache' = <<>>
    /\ chain_cache' = <<>>
    /\ UNCHANGED <<call, upstream, resp>>

Init ==
    /\ call = Pending("none", <<>>)
    /\ spot_cache = <<>>
    /\ expirations_cache = <<>>
    /\ chain_cache = <<>>
    /\ upstream \in Scenarios
    /\ resp = [op |-> "none"]

Next ==
    \/ GetSpot
    \/ GetExpirations
    \/ GetExposures
    \/ GetExposuresMatrix
    \/ CachesExpire

Spec == Init /\ [][Next]_vars

---------------------------------------------------------------------------
(* backend/main.py : get_chain_data called on its own *)

\* spot prices a caller may pass; their +/-30% windows differ
ChainSpots == {10, 20, 100}

ChainProviders == { sc \in Scenarios : sc.quote.ok /\ sc.expirations.ok }

InitChain ==
    /\ call = Pending("none", <<>>)
    /\ spot_cache = <<>>
    /\ expirations_cache = <<>>
    /\ chain_cache = <<>>
    /\ upstream \in ChainProviders
    /\ resp = [op |-> "none"]

\* the contract list goes back to the caller and the cache write stays
ChainReturned(expiration, spot_price, got) ==
    /\ call' = [op |-> "get_chain_data",
                args |-> [expiration |-> expiration, spot_price |-> spot_price],
                done |-> TRUE,
                result |-> got.contracts]
    /\ chain_cache' = got.st.chain_cache

CallGetChainData ==
    \E expiration \in DatesOf(MaxExpirations), spot_price \in ChainSpots :
        /\ ChainReturned(expiration, spot_price,
                         get_chain_data(expiration, spot_price, CacheState))
        /\ UNCHANGED <<spot_cache, expirations_cache, upstream, resp>>

\* TTLCache: the chains have outlived cache_ttl_seconds
ChainCacheExpires ==
    /\ chain_cache' = <<>>
    /\ UNCHANGED <<call, spot_cache, expirations_cache, upstream, resp>>

NextChain ==
    \/ CallGetChainData
    \/ ChainCacheExpires

SpecChain == InitChain /\ [][NextChain]_vars

---------------------------------------------------------------------------
(* Properties of the pure functions, checked under SpecCalc *)

Returns(op) == call.op = op /\ call.done

\* C1: classify_regime returns "o" whenever |value| < threshold and whenever
\* value is exactly +threshold or -threshold, "+" only when value > threshold
\* and "-" only when value < -threshold.
C1_BoundaryIsNeutral ==
    Returns("classify_regime") =>
        LET value == call.args.value
            t == call.args.neutral_threshold
        IN  call.result = IF Abs(value) <= t THEN "o"
                          ELSE IF value > t THEN "+" ELSE "-"

\* C2: every exposure of a contract is -(open interest) x greek x scaling
\* factor, the factor being spot^2 x 100 for GEX and spot x 100 for DEX, VEX
\* and CEX, and is 0 when the open interest is negative or the factor is
\* non-finite or not positive; open interest 0 gives four zeros and positive
\* open interest with positive gamma / delta gives negative GEX / DEX.
C2_ExposureFormula ==
    Returns("calculate_contract_exposures") =>
        LET oi == call.args.contract.open_interest
            spot == call.args.spot_price
            g == call.result.greeks
            e == call.result.exposures
            expected(greek, power) ==
                IF oi < 0 \/ ~spot.fin THEN 0
                ELSE LET scaling == IF power = 2 THEN spot.v * spot.v * 100
                                    ELSE spot.v * 100
                     IN  IF scaling <= 0 THEN 0
                         ELSE 0 - (oi * greek * scaling)
        IN  /\ e.gex = expected(g.gamma, 2)
            /\ e.dex = expected(g.delta, 1)
            /\ e.vex = expected(g.vanna, 1)
            /\ e.cex = expected(g.charm, 1)
            /\ oi = 0 => e = [gex |-> 0, dex |-> 0, vex |-> 0, cex |-> 0]
            /\ (oi > 0 /\ spot.fin /\ spot.v > 0 /\ g.gamma > 0) => e.gex < 0
            /\ (oi > 0 /\ spot.fin /\ spot.v > 0 /\ g.delta > 0) => e.dex < 0

C2_Witness ==
    /\ Returns("calculate_contract_exposures")
    /\ call.args.contract.open_interest > 0
    /\ call.args.spot_price = F(10)
    /\ call.result.greeks.gamma = 200
    /\ call.result.exposures.gex =
           0 - (call.args.contract.open_interest * 200 * 10000)
    /\ call.result.exposures.dex < 0

\* C3: aggregate_by_strike_with_logging returns the same strike map as
\* aggregate_by_strike (same strikes, sums, call_oi, put_oi and contract
\* lists), also when some contracts have four zero exposures.
C3_LoggingSameResult ==
    Returns("aggregate_by_strike_with_logging") =>
        call.result = aggregate_by_strike(call.args.contracts,
                                          call.args.spot_price,
                                          risk_free_rate, dividend_yield)

\* C7: the Greeks returned by calculate_contract_exposures are finite numbers
\* with delta in [-5,5], gamma in [-1,1], vanna in [-10,10] and charm in
\* [-10,10], whatever the live Greeks and the model evaluation are.
C7_GreeksInRange ==
    Returns("calculate_contract_exposures") =>
        /\ call.result.greeks.delta \in (-5 * FP)..(5 * FP)
        /\ call.result.greeks.gamma \in (-1 * FP)..(1 * FP)
        /\ call.result.greeks.vanna \in (-10 * FP)..(10 * FP)
        /\ call.result.greeks.charm \in (-10 * FP)..(10 * FP)

C7_Witness ==
    /\ Returns("calculate_contract_exposures")
    /\ call.args.contract.delta = F(60000)
    /\ call.args.contract.gamma = PosInf
    /\ call.result.greeks.delta = 5 * FP
    /\ call.result.greeks.gamma = 0

\* C8 as stated: on the Provided path charm is clamp(-theta/365.25) when
\* |theta| > 0.001 and 0 otherwise, and vanna is clamp(vega x 0.1) when
\* |vega| > 0.001, else clamp(gamma x sqrt(T)) when T > 0, else 0, theta and
\* vega being the contract's live values (a missing or non-finite one is 0).
C8_CharmVannaFromLiveValues ==
    (Returns("calculate_contract_exposures") /\ call.result.source = "provided") =>
        LET c == call.args.contract
            live(x) == IF x.fin THEN x.v ELSE 0
            clamp(x) == Max(-10 * FP, Min(10 * FP, x))
            theta == live(c.theta)
            vega == live(c.vega)
            T == calculate_time_to_expiration(c.expiration_date)
        IN  /\ call.result.greeks.charm =
                  IF Abs(theta) > 10
                  THEN clamp(TruncDiv((0 - theta) * 100, 36525)) ELSE 0
            /\ call.result.greeks.vanna =
                  IF Abs(vega) > 10 THEN clamp(TruncDiv(vega, 10))
                  ELSE IF T > 0
                       THEN clamp(TruncDiv(call.result.greeks.gamma
                                           * ISqrt(T * TUnit), TUnit))
                       ELSE 0

\* C8 as amended: the same rule with theta and vega being the live values
\* after validation, that is clamped to [-10,10] first (a missing or
\* non-finite one is 0), so that vega = 50 gives vanna = 1.
C8_CharmVannaFromClampedValues ==
    (Returns("calculate_contract_exposures") /\ call.result.source = "provided") =>
        LET c == call.args.contract
            clamp(x) == Max(-10 * FP, Min(10 * FP, x))
            validated(x) == IF x.fin THEN clamp(x.v) ELSE 0
            theta == validated(c.theta)
            vega == validated(c.vega)
            T == calculate_time_to_expiration(c.expiration_date)
        IN  /\ call.result.greeks.charm =
                  IF Abs(theta) > 10
                  THEN clamp(TruncDiv((0 - theta) * 100, 36525)) ELSE 0
            /\ call.result.greeks.vanna =
                  IF Abs(vega) > 10 THEN clamp(TruncDiv(vega, 10))
                  ELSE IF T > 0
                       THEN clamp(TruncDiv(call.result.greeks.gamma
                                           * ISqrt(T * TUnit), TUnit))
                       ELSE 0

C8_Witness ==
    /\ Returns("calculate_contract_exposures")
    /\ call.result.source = "provided"
    /\ call.args.contract.vega = F(50 * FP)
    /\ call.result.greeks.vanna = 1 * FP
    /\ call.args.contract.theta = F(-50 * FP)
    /\ call.result.greeks.charm = 273

\* C9: the live delta and gamma (clamped) are used exactly when
\* |delta| > 0.001 or |gamma| > 0.0001, a missing or non-finite live value
\* counting as 0; otherwise the Black-Scholes model is evaluated with sigma
\* the implied volatility if it lies strictly in (0, 5) and 0.20 if it is
\* missing or out of range.
C9_SourceSelection ==
    Returns("calculate_contract_exposures") =>
        LET c == call.args.contract
            live(x) == IF x.fin THEN x.v ELSE 0
            provided == Abs(live(c.delta)) > 10 \/ Abs(live(c.gamma)) > 1
            iv == c.implied_volatility
            sigma == IF iv.fin /\ iv.v > 0 /\ iv.v < 5 * FP THEN iv.v
                     ELSE 2000
        IN  /\ (call.result.source = "provided") <=> provided
            /\ provided =>
                 /\ call.result.greeks.delta =
                        Max(-5 * FP, Min(5 * FP, live(c.delta)))
                 /\ call.result.greeks.gamma =
                        Max(-1 * FP, Min(1 * FP, live(c.gamma)))
            /\ ~provided =>
                 /\ call.result.source = "model"
                 /\ call.result.sigma = sigma

C9_Witness ==
    /\ Returns("calculate_contract_exposures")
    /\ call.args.contract.delta = F(10)
    /\ call.args.contract.gamma = F(1)
    /\ call.args.contract.implied_volatility = F(5 * FP)
    /\ call.result.source = "model"
    /\ call.result.sigma = 2000

\* C10 as stated: calculate_greeks raises ValueError for every option_type
\* that is neither "call" nor "put" in any letter case, whatever S, K, T and
\* sigma are.
C10_UnknownKindAlwaysRaises ==
    (Returns("calculate_greeks")
        /\ call.args.option_type \notin {"call", "put", "CALL", "Put"}) =>
        call.result.raised

\* C10 as amended: for such an option_type calculate_greeks raises ValueError
\* when none of T <= 0, sigma <= 0, S <= 0, K <= 0 holds, and returns the
\* all-zero Greeks without an error when one of them holds.
C10_UnknownKindRaisesPastEdgeCases ==
    (Returns("calculate_greeks")
        /\ call.args.option_type \notin {"call", "put", "CALL", "Put"}) =>
        LET a == call.args
            edge == \/ a.T <= 0
                    \/ a.sigma <= 0
                    \/ (a.S.fin /\ a.S.v <= 0)
                    \/ a.K <= 0
        IN  /\ call.result.raised <=> ~edge
            /\ edge => call.result.greeks = ZeroGreeks

C10_Witness ==
    /\ Returns("calculate_greeks")
    /\ call.args.option_type = "invalid"
    /\ call.args.T > 0 /\ call.args.sigma > 0 /\ call.args.K > 0
    /\ call.args.S = F(100)
    /\ call.result.raised

\* C11: calculate_greeks returns exactly delta 0, gamma 0, vanna 0, charm 0,
\* without an error, whenever T <= 0 or sigma <= 0 or S <= 0 or K <= 0, for
\* a call, for a put and for any other option kind.
C11_EdgeCasesGiveZeroGreeks ==
    Returns("calculate_greeks") =>
        LET a == call.args
        IN  (\/ a.T <= 0
             \/ a.sigma <= 0
             \/ (a.S.fin /\ a.S.v <= 0)
             \/ a.K <= 0)
            => /\ ~call.result.raised
               /\ call.result.greeks = ZeroGreeks

C11_Witness ==
    /\ Returns("calculate_greeks")
    /\ call.args.option_type = "put"
    /\ call.args.T > 0 /\ call.args.sigma > 0 /\ call.args.K > 0
    /\ call.args.S = F(0)
    /\ call.args.ev = TypicalEval
    /\ call.result.greeks = ZeroGreeks

\* C12: calculate_contract_exposures never raises to its caller, and for a
\* contract with a malformed expiration date, an unknown option kind, an
\* out-of-range implied volatility or an exception during the model
\* evaluation the returned Greeks are all zero and the four exposures are 0.
C12_NeverRaisesAndDegradesToZero ==
    Returns("calculate_contract_exposures") =>
        LET c == call.args.contract
            iv == c.implied_volatility
            T == calculate_time_to_expiration(c.expiration_date)
            model == calculate_greeks(call.args.spot_price, c.strike, T,
                                      risk_free_rate, dividend_yield,
                                      ResolveSigma(c), c.option_type,
                                      call.args.ev)
            fault ==
                \/ ~Calendar(c.expiration_date).ok
                \/ Lower(c.option_type) \notin {"call", "put"}
                \/ (~IsNone(iv) /\ ~(iv.fin /\ 0 < iv.v /\ iv.v < 5 * FP))
                \/ (~UsesProvided(c) /\ model.raised)
        IN  /\ ~call.result.raised
            /\ fault =>
                  /\ call.result.greeks =
                        [delta |-> 0, gamma |-> 0, vanna |-> 0, charm |-> 0]
                  /\ call.result.exposures =
                        [gex |-> 0, dex |-> 0, vex |-> 0, cex |-> 0]

\* the values in ascending order
RECURSIVE Ascending(_)
Ascending(values) ==
    IF values = <<>> THEN <<>>
    ELSE LET i == CHOOSE k \in 1..Len(values) :
                      \A j \in 1..Len(values) : values[k] <= values[j]
         IN  <<values[i]>>
             \o Ascending([j \in 1..(Len(values) - 1) |->
                              IF j < i THEN values[j] ELSE values[j + 1]])

\* C13: calculate_neutral_threshold(values, epsilon) is epsilon for the empty
\* list and max(epsilon, 0.05 x median of the absolute values) otherwise, the
\* median of an even-length list being the mean of the two middle values;
\* [] with the default epsilon gives 0.05 and [1,-1,2,-2,10,-10] gives 0.1.
\* (0.05 x median is twice the median over 40; the result is exact up to
\* the fixed-point grid, rounded up.)
C13_ThresholdIsMaxOfEpsilonAndMedian ==
    Returns("calculate_neutral_threshold") =>
        LET values == call.args.values
            epsilon == call.args.epsilon
            n == Len(values)
            sorted == Ascending([i \in 1..n |-> Abs(values[i])])
            median2 == IF n % 2 = 1
                       THEN 2 * sorted[(n + 1) \div 2]
                       ELSE sorted[n \div 2] + sorted[n \div 2 + 1]
        IN  /\ n = 0 => call.result = epsilon
            /\ (n > 0 /\ median2 <= 40 * epsilon) => call.result = epsilon
            /\ (n > 0 /\ median2 > 40 * epsilon) =>
                  /\ 40 * (call.result - 1) < median2
                  /\ median2 <= 40 * call.result
            /\ (values = <<>> /\ epsilon = DefaultEpsilon) => call.result = 500
            /\ (values = TestValues /\ epsilon = DefaultEpsilon) =>
                  call.result = 1000

C13_Witness ==
    /\ Returns("calculate_neutral_threshold")
    /\ call.args.values = <<100000, -10000>>
    /\ call.args.epsilon = DefaultEpsilon
    /\ call.result = 2750

RECURSIVE SumSeq(_)
SumSeq(numbers) ==
    IF numbers = <<>> THEN 0 ELSE Head(numbers) + SumSeq(Tail(numbers))

\* what aggregate_by_strike must return for one strike: the sums, over the
\* contracts at that strike, of the per-contract exposures and of the open
\* interest of the calls; IsPut says which contracts count towards put_oi
ExpectedAtStrike(contracts, spot_price, strike, IsPut(_)) ==
    LET n == Len(contracts)
        at(i) == contracts[i].strike = strike
        e(i) == ContractResult(contracts[i], spot_price,
                               risk_free_rate, dividend_yield).exposures
    IN  [gex |-> SumSeq([i \in 1..n |-> IF at(i) THEN e(i).gex ELSE 0]),
         dex |-> SumSeq([i \in 1..n |-> IF at(i) THEN e(i).dex ELSE 0]),
         vex |-> SumSeq([i \in 1..n |-> IF at(i) THEN e(i).vex ELSE 0]),
         cex |-> SumSeq([i \in 1..n |-> IF at(i) THEN e(i).cex ELSE 0]),
         call_oi |->
             SumSeq([i \in 1..n |->
                        IF at(i) /\ Lower(contracts[i].option_type) = "call"
                        THEN contracts[i].open_interest ELSE 0]),
         put_oi |->
             SumSeq([i \in 1..n |->
                        IF at(i) /\ IsPut(contracts[i])
                        THEN contracts[i].open_interest ELSE 0])]

AggregatesAsExpected(IsPut(_)) ==
    LET contracts == call.args.contracts
        result == call.result
        strikes == { contracts[i].strike : i \in 1..Len(contracts) }
    IN  /\ { result[j].strike : j \in 1..Len(result) } = strikes
        /\ Len(result) = Cardinality(strikes)
        /\ \A j \in 1..Len(result) :
              LET expected == ExpectedAtStrike(contracts, call.args.spot_price,
                                               result[j].strike, IsPut)
              IN  /\ result[j].gex = expected.gex
                  /\ result[j].dex = expected.dex
                  /\ result[j].vex = expected.vex
                  /\ result[j].cex = expected.cex
                  /\ result[j].call_oi = expected.call_oi
                  /\ result[j].put_oi = expected.put_oi

IsPutContract(contract) == Lower(contract.option_type) = "put"

IsNotCallContract(contract) == Lower(contract.option_type) # "call"

\* C14: aggregate_by_strike returns one entry per distinct strike of the
\* input, whose gex/dex/vex/cex are the sums of the per-contract exposures at
\* that strike, whose call_oi is the summed open interest of the calls at
\* that strike and whose put_oi is the summed open interest of the puts at
\* that strike.
C14_SumsPerStrikeWithPutsInPutOI ==
    Returns("aggregate_by_strike") => AggregatesAsExpected(IsPutContract)

\* C14 as amended: the same, with put_oi the summed open interest of every
\* contract at that strike whose kind is not "call" (compared in lower
\* case), which includes contracts of an unknown kind.
C14_SumsPerStrikeWithNonCallsInPutOI ==
    Returns("aggregate_by_strike") => AggregatesAsExpected(IsNotCallContract)

C14_Witness ==
    /\ Returns("aggregate_by_strike")
    /\ Len(call.args.contracts) = 2
    /\ call.args.contracts[1].option_type = "call"
    /\ call.args.contracts[2].option_type = "put"
    /\ call.args.contracts[1].strike = call.args.contracts[2].strike
    /\ Len(call.result) = 1
    /\ call.result[1].call_oi = 2
    /\ call.result[1].put_oi = 1
    /\ call.result[1].gex < 0

\* the rearrangements of a sequence
Orderings(seq) ==
    { [i \in 1..Len(seq) |-> seq[p[i]]] :
        p \in { f \in [1..Len(seq) -> 1..Len(seq)] :
                  \A i, j \in 1..Len(seq) : f[i] = f[j] => i = j } }

\* the four mathematical sums over the strikes
ExactTotals(m) ==
    [gex |-> SumSeq([i \in 1..Len(m) |-> m[i].gex]),
     dex |-> SumSeq([i \in 1..Len(m) |-> m[i].dex]),
     vex |-> SumSeq([i \in 1..Len(m) |-> m[i].vex]),
     cex |-> SumSeq([i \in 1..Len(m) |-> m[i].cex])]

\* the float nearest to an integer below twice MaxExactFloat
NearestFloat(x) ==
    IF Abs(x) <= MaxExactFloat THEN x
    ELSE CHOOSE y \in {x - 1, x, x + 1} :
             /\ y % 2 = 0
             /\ (x % 2 # 0 => y % 4 = 0)

\* the float sum of the numbers, taken from acc in their order
RECURSIVE SumInOrder(_, _)
SumInOrder(acc, numbers) ==
    IF numbers = <<>> THEN acc
    ELSE SumInOrder(NearestFloat(acc + Head(numbers)), Tail(numbers))

\* the magnitudes add up to no more than MaxExactFloat
AddsUpExactly(numbers) ==
    SumSeq([i \in 1..Len(numbers) |-> Abs(numbers[i]) \div 2])
        <= (MaxExactFloat
            - SumSeq([i \in 1..Len(numbers) |-> Abs(numbers[i]) % 2])) \div 2

C16_ConductivityTable ==
    Returns("determine_conductivity") =>
        LET code == <<call.args.regime.g, call.args.regime.d,
                      call.args.regime.v, call.args.regime.c>>
            vix == call.args.vix_regime
        IN  /\ call.result \in {"RALLY-CONDUCIVE", "SELL-OFF-CONDUCIVE",
                                 "MIXED", "CONDITIONAL_VOID",
                                 "BOUNCE_CANDIDATE", "CEILING_MAGNET",
                                 "STRUCTURAL_SUPPORT", "MIXED_CHOP"}
            /\ call.result =
                  CASE code = <<"-", "-", "-", "-">> ->
                         (IF vix = "RISING" THEN "MIXED"
                          ELSE "RALLY-CONDUCIVE")
                    [] code = <<"-", "+", "+", "+">> ->
                         (IF vix = "FALLING" THEN "MIXED"
                          ELSE "SELL-OFF-CONDUCIVE")
                    [] code = <<"-", "-", "+", "-">> -> "CONDITIONAL_VOID"
                    [] code = <<"-", "+", "-", "+">> -> "BOUNCE_CANDIDATE"
                    [] code = <<"+", "+", "+", "-">> -> "CEILING_MAGNET"
                    [] code = <<"+", "+", "-", "+">> -> "STRUCTURAL_SUPPORT"
                    [] OTHER -> "MIXED_CHOP"
            /\ (\E k \in 1..4 : code[k] = "o") => call.result = "MIXED_CHOP"

C16_Witness ==
    /\ Returns("determine_conductivity")
    /\ call.args.regime = [g |-> "-", d |-> "+", v |-> "+", c |-> "+"]
    /\ call.args.vix_regime = "AUTO"
    /\ call.result = "SELL-OFF-CONDUCIVE"

Annotations ==
    {" (AT-THE-MONEY)", " (OUT-OF-THE-MONEY CALL)", " (OUT-OF-THE-MONEY PUT)"}

\* C17: classify_strike_terrain appends exactly one moneyness annotation to
\* the terrain description: at-the-money when |strike - spot| / spot < 0.01,
\* that is 0.99 spot < strike < 1.01 spot and in particular strike = spot,
\* otherwise OTM-call when strike > spot (strike = 1.05 x spot has no
\* at-the-money annotation) and OTM-put when strike < spot.
C17_OneMoneynessAnnotation ==
    Returns("classify_strike_terrain") =>
        LET spot == call.args.spot_price
            strike == call.args.strike
            description == terrain_map(call.args.regime_code)
            expected ==
                IF 99 * spot < 100 * strike /\ 100 * strike < 101 * spot
                THEN " (AT-THE-MONEY)"
                ELSE IF strike > spot THEN " (OUT-OF-THE-MONEY CALL)"
                ELSE " (OUT-OF-THE-MONEY PUT)"
        IN  /\ call.result.classification = description \o expected
            /\ Cardinality({ a \in Annotations :
                   call.result.classification = description \o a }) = 1
            /\ strike = spot =>
                  call.result.classification = description \o " (AT-THE-MONEY)"
            /\ 100 * strike = 105 * spot =>
                  call.result.classification =
                      description \o " (OUT-OF-THE-MONEY CALL)"

C17_Witness ==
    /\ Returns("classify_strike_terrain")
    /\ call.args.spot_price = 1000
    /\ call.args.strike = 1010
    /\ call.args.regime_code = "G+ D+ V+ C-"
    /\ call.result.classification = "CEILING/MAGNET (OUT-OF-THE-MONEY CALL)"

\* C18: classify_strike_terrain returns the NEUTRAL description for every
\* regime code that is not a key of the terrain table, every code with an
\* "o" included, and raises the MAX_DOWNSIDE_ACCELERATION flag exactly when
\* the regime code is "G- D- V- C+", no flag otherwise.
C18_NeutralDefaultAndFlag ==
    Returns("classify_strike_terrain") =>
        LET code == call.args.regime_code
            keys == {"G+ D+ V+ C-", "G- D- V- C+", "G- D- V+ C-", "G+ D+ V- C+"}
        IN  /\ code \notin keys =>
                  \E a \in Annotations :
                      call.result.classification = "NEUTRAL" \o a
            /\ code \in keys =>
                  \A a \in Annotations :
                      call.result.classification # "NEUTRAL" \o a
            /\ (\E r \in Regimes :
                    /\ code = RegimeCode(r)
                    /\ "o" \in {r.g, r.d, r.v, r.c}) =>
                  \E a \in Annotations :
                      call.result.classification = "NEUTRAL" \o a
            /\ call.result.pattern_flags =
                  IF code = "G- D- V- C+"
                  THEN <<"MAX_DOWNSIDE_ACCELERATION">> ELSE <<>>

C18_Witness ==
    /\ Returns("classify_strike_terrain")
    /\ call.args.regime_code = "G- D- V- C+"
    /\ call.args.spot_price = 10
    /\ call.args.strike = 9
    /\ call.result.pattern_flags = <<"MAX_DOWNSIDE_ACCELERATION">>
    /\ call.result.classification =
          "ACCELERATION ZONE (DOWN) (OUT-OF-THE-MONEY PUT)"

---------------------------------------------------------------------------
(* Properties of the request handlers, checked under Spec *)

\* C4: in a get_exposures response every strike is classified against the
\* one neutral threshold computed over the exposure values of all strikes of
\* the result, the threshold the aggregate regime uses.
C4_OneThresholdForAllStrikes ==
    (resp.op = "get_exposures" /\ resp.status = 200) =>
        LET strikes == resp.body.strikes
            all_values == ExposureValues(strikes, Len(strikes))
            threshold == calculate_neutral_threshold(all_values, DefaultEpsilon)
        IN  \A i \in 1..Len(strikes) :
                /\ strikes[i].regime.g = classify_regime(strikes[i].gex, threshold)
                /\ strikes[i].regime.d = classify_regime(strikes[i].dex, threshold)
                /\ strikes[i].regime.v = classify_regime(strikes[i].vex, threshold)
                /\ strikes[i].regime.c = classify_regime(strikes[i].cex, threshold)

\* C5: a result with zero processable strikes is reported as a failure:
\* neither get_exposures nor get_exposures_matrix answers successfully with
\* an empty strike list.
C5_NoDataIsAFailure ==
    /\ (resp.op = "get_exposures" /\ resp.status = 200) =>
           resp.body.strikes # <<>>
    /\ (resp.op = "get_exposures_matrix" /\ resp.status = 200) =>
           resp.body.y_strikes # <<>>

\* The chain an expiration's sub-pipeline worked on, read off the caches
\* the request leaves behind: the cached contracts, or nothing when the
\* chain could not be fetched.
ChainUsed(cc, exp) == Get(cc, "chain_" \o exp, <<>>)

MatrixRowsFromOwnData(r, cc) ==
    LET x == r.body.x_expirations
        y == r.body.y_strikes
        z == r.body.z
        strikesOf(exp) ==
            aggregate_by_strike_with_logging(ChainUsed(cc, exp), F(r.body.spot),
                                             risk_free_rate, dividend_yield)
        cell(exp, strike) ==
            LET own == strikesOf(exp)
                i == StrikeIndex(own, strike)
            IN  IF i = 0 THEN 0 ELSE MetricValue(own[i], r.body.metric)
    IN  /\ Len(z) = Len(x)
        /\ \A i \in 1..Len(x) :
            /\ Len(z[i]) = Len(y)
            /\ strikesOf(x[i]) = <<>> => \A j \in 1..Len(y) : z[i][j] = 0
            /\ \A j \in 1..Len(y) : z[i][j] = cell(x[i], y[j])

\* C6: a matrix request over N <= 8 expirations returns normally whenever
\* the quote and the expiration list are available, with exactly N rows in
\* the order of x_expirations; the row of an expiration whose sub-pipeline
\* failed is all zeros and every other row is built from that expiration's
\* own data.
C6_FailedExpirationIsAZeroRow ==
    [][ \A req \in MatrixRequests :
          LET r == get_exposures_matrix(req.metric, req.expiration,
                                        req.vix_regime, CacheState)
          IN  (/\ req.metric \in ValidMetrics
               /\ req.expiration = "ALL"
               /\ req.vix_regime \in ValidVixRegimes
               /\ upstream.quote.ok
               /\ upstream.expirations.ok
               /\ resp'.op = "get_exposures_matrix"
               /\ resp'.args = req
               /\ resp' = Responded("get_exposures_matrix", req, r)
               /\ spot_cache' = r.st.spot_cache
               /\ expirations_cache' = r.st.expirations_cache
               /\ chain_cache' = r.st.chain_cache)
              => /\ resp'.status = 200
                 /\ resp'.body.x_expirations =
                        FirstN(upstream.expirations.dates, 8)
                 /\ Len(resp'.body.x_expirations) <= 8
                 /\ MatrixRowsFromOwnData(resp', chain_cache') ]_vars

C6_Witness ==
    /\ resp.op = "get_exposures_matrix"
    /\ resp.status = 200
    /\ Len(resp.body.x_expirations) >= 2
    /\ \E i \in 1..Len(resp.body.x_expirations) :
        /\ ~upstream.chains[resp.body.x_expirations[i]].ok
        /\ \A j \in 1..Len(resp.body.y_strikes) : resp.body.z[i][j] = 0
    /\ \E i \in 1..Len(resp.body.x_expirations) :
        \E j \in 1..Len(resp.body.y_strikes) : resp.body.z[i][j] # 0

\* The caches of a freshly started server.
NoCaches == [spot_cache |-> <<>>, expirations_cache |-> <<>>, chain_cache |-> <<>>]

\* What get_exposures answers for the i-th expiration of a matrix response.
\* The provider's answers never change, so the answer does not depend on
\* what the caches held when the matrix was built.
ExpirationResult(r, i) ==
    get_exposures(r.body.x_expirations[i], r.args.vix_regime, NoCaches)

\* The strikes of the expirations a matrix response processed successfully.
StrikesSeen(r) ==
    UNION { LET got == ExpirationResult(r, i)
            IN  IF got.status = 200
                THEN { got.body.strikes[k].strike :
                           k \in 1..Len(got.body.strikes) }
                ELSE {} :
            i \in 1..Len(r.body.x_expirations) }

\* C19: in every matrix result y_strikes is strictly ascending, has no
\* duplicates and at most 25 entries, and holds the 25 smallest strikes of
\* the union of the strikes of the successfully processed expirations (the
\* whole union when it has 25 or fewer); x_expirations has at most 8 entries.
C19_GridAxes ==
    (resp.op = "get_exposures_matrix" /\ resp.status = 200) =>
        LET y == resp.body.y_strikes
            kept == { y[j] : j \in 1..Len(y) }
            seen == StrikesSeen(resp)
        IN  /\ \A j \in 1..(Len(y) - 1) : y[j] < y[j + 1]
            /\ Cardinality(kept) = Len(y)
            /\ Len(y) <= 25
            /\ Len(y) = Min(25, Cardinality(seen))
            /\ kept \subseteq seen
            /\ \A s \in seen \ kept : \A t \in kept : t < s
            /\ Len(resp.body.x_expirations) <= 8

\* a grid cut to 25 of more strikes and to 8 of more expirations, one of
\* them failed
C19_Witness ==
    /\ resp.op = "get_exposures_matrix"
    /\ resp.status = 200
    /\ Len(resp.body.y_strikes) = 25
    /\ Cardinality(StrikesSeen(resp)) > 25
    /\ Len(resp.body.x_expirations) = 8
    /\ Len(upstream.expirations.dates) > 8
    /\ \E i \in 1..8 : ExpirationResult(resp, i).status # 200
    /\ resp.body.y_strikes[1] = 70

\* The entry of a strike in the strike list of a get_exposures answer, as
\* a set: empty when the answer is a failure or lacks the strike.
EntriesOf(got, strike) ==
    IF got.status # 200 THEN {}
    ELSE { got.body.strikes[k] : k \in { n \in 1..Len(got.body.strikes) :
                                            got.body.strikes[n].strike = strike } }

\* C20: in every matrix result each row has exactly len(y_strikes) columns,
\* and cell (i, j) is the requested metric's value of strike y_strikes[j] in
\* expiration x_expirations[i] when that expiration's strikes contain the
\* strike, and 0 when they do not.
C20_CellsAreTheMetricOfTheStrike ==
    (resp.op = "get_exposures_matrix" /\ resp.status = 200) =>
        LET x == resp.body.x_expirations
            y == resp.body.y_strikes
            z == resp.body.z
        IN  /\ Len(z) = Len(x)
            /\ \A i \in 1..Len(x) :
                /\ Len(z[i]) = Len(y)
                /\ \A j \in 1..Len(y) :
                    LET entries == EntriesOf(ExpirationResult(resp, i), y[j])
                    IN  /\ Cardinality(entries) <= 1
                        /\ entries = {} => z[i][j] = 0
                        /\ \A e \in entries :
                            z[i][j] = CASE resp.body.metric = "GEX" -> e.gex
                                        [] resp.body.metric = "DEX" -> e.dex
                                        [] resp.body.metric = "VEX" -> e.vex
                                        [] resp.body.metric = "CEX" -> e.cex

\* a CEX grid with a cell that holds a strike's cex, different from its
\* gex, and a zero cell of an expiration that answered without the strike
C20_Witness ==
    /\ resp.op = "get_exposures_matrix"
    /\ resp.status = 200
    /\ resp.body.metric = "CEX"
    /\ \E i \in 1..Len(resp.body.x_expirations) :
        /\ ExpirationResult(resp, i).status = 200
        /\ \E j \in 1..Len(resp.body.y_strikes) :
            \E e \in EntriesOf(ExpirationResult(resp, i), resp.body.y_strikes[j]) :
                /\ resp.body.z[i][j] = e.cex
                /\ e.cex # 0
                /\ e.cex # e.gex
        /\ \E j \in 1..Len(resp.body.y_strikes) :
            /\ EntriesOf(ExpirationResult(resp, i), resp.body.y_strikes[j]) = {}
            /\ resp.body.z[i][j] = 0

\* The detail main.py:313-323 builds from one strike of an answer.
DetailOf(e) ==
    [regime_code |-> e.regime_code, classification |-> e.classification,
     pattern_flags |-> e.pattern_flags,
     gex |-> e.gex, dex |-> e.dex, vex |-> e.vex, cex |-> e.cex,
     call_oi |-> e.call_oi, put_oi |-> e.put_oi]

\* C21: the detail recorded for a strike in a matrix result comes from the
\* first expiration, in iteration order, whose answer contains the strike;
\* a later expiration that also contains it leaves the detail as it was.
C21_DetailFromFirstExpiration ==
    (resp.op = "get_exposures_matrix" /\ resp.status = 200) =>
        \A i \in 1..Len(resp.body.x_expirations) :
            LET got == ExpirationResult(resp, i)
            IN  got.status = 200 =>
                    \A k \in 1..Len(got.body.strikes) :
                        LET e == got.body.strikes[k]
                        IN  (\A h \in 1..(i - 1) :
                                 EntriesOf(ExpirationResult(resp, h), e.strike) = {})
                            => /\ StrikeKey(e.strike) \in DOMAIN resp.body.strike_details
                               /\ resp.body.strike_details[StrikeKey(e.strike)]
                                      = DetailOf(e)

\* two expirations answer with the same strike and different details, and
\* the result holds the first one's
C21_Witness ==
    /\ resp.op = "get_exposures_matrix"
    /\ resp.status = 200
    /\ \E i, h \in 1..Len(resp.body.x_expirations) :
        /\ i < h
        /\ \E e \in UNION { EntriesOf(ExpirationResult(resp, i), s) :
                                s \in StrikesSeen(resp) } :
            \E f \in EntriesOf(ExpirationResult(resp, h), e.strike) :
                /\ DetailOf(e) # DetailOf(f)
                /\ \A g \in 1..(i - 1) :
                       EntriesOf(ExpirationResult(resp, g), e.strike) = {}
                /\ resp.body.strike_details[StrikeKey(e.strike)] = DetailOf(e)

\* A get_exposures request that got its quote and its expirations and ended
\* up with no strike at all.
EndedWithZeroStrikes(r) ==
    /\ r.op = "get_exposures"
    /\ r.args.vix_regime \in ValidVixRegimes
    /\ upstream.quote.ok
    /\ LET agg == StrikeAggregations(r.args.expiration, upstream.quote.last,
                                     NoCaches)
       IN  agg.ok /\ agg.strike_aggregations = <<>>

\* C23: when get_exposures ends up with zero strikes (empty or failed chain,
\* or every contract skipped) the caller receives the 503 error raised for
\* that condition and no other status code.
C23_ZeroStrikesIs503 ==
    EndedWithZeroStrikes(resp) => resp.status = 503

\* One field of the entry of a strike in a get_exposures answer, 0 when
\* the answer is a failure or lacks the strike.
FieldOf(got, strike, Field(_)) ==
    LET entries == EntriesOf(got, strike)
    IN  IF entries = {} THEN 0 ELSE Field(CHOOSE e \in entries : TRUE)

GexOf(e) == e.gex

DexOf(e) == e.dex

VexOf(e) == e.vex

CexOf(e) == e.cex

CallOIOf(e) == e.call_oi

PutOIOf(e) == e.put_oi

\* What get_exposures answers for one expiration on its own.
SingleResult(r, expiration) ==
    get_exposures(expiration, r.args.vix_regime, NoCaches)

\* C24: for expiration = "ALL" get_exposures processes the first 5
\* expirations only, and for every strike the resulting gex, dex, vex, cex,
\* call_oi and put_oi are the sums of the strike's values over those of the
\* 5 expirations that were processed successfully; a failing expiration is
\* skipped, leaves the sums as they are and does not abort the request.
C24_AllSumsFirstFiveExpirations ==
    (/\ resp.op = "get_exposures"
     /\ resp.args.expiration = "ALL"
     /\ resp.status = 200) =>
        LET dates == FirstN(upstream.expirations.dates, 5)
            strikes == resp.body.strikes
            SumOf(strike, Field(_)) ==
                SumSeq([i \in 1..Len(dates) |->
                           FieldOf(SingleResult(resp, dates[i]), strike, Field)])
            processed ==
                StrikesSeen([args |-> resp.args,
                             body |-> [x_expirations |-> dates]])
        IN  /\ { strikes[k].strike : k \in 1..Len(strikes) } = processed
            /\ \A k, h \in 1..Len(strikes) :
                   strikes[k].strike = strikes[h].strike => k = h
            /\ \A k \in 1..Len(strikes) :
                /\ strikes[k].gex = SumOf(strikes[k].strike, GexOf)
                /\ strikes[k].dex = SumOf(strikes[k].strike, DexOf)
                /\ strikes[k].vex = SumOf(strikes[k].strike, VexOf)
                /\ strikes[k].cex = SumOf(strikes[k].strike, CexOf)
                /\ strikes[k].call_oi = SumOf(strikes[k].strike, CallOIOf)
                /\ strikes[k].put_oi = SumOf(strikes[k].strike, PutOIOf)

\* nine expirations of which five are visited: one of the five fails, two
\* of them share a strike whose values are added up, and a strike of the
\* sixth is not in the result
C24_Witness ==
    /\ resp.op = "get_exposures"
    /\ resp.args.expiration = "ALL"
    /\ resp.status = 200
    /\ Len(upstream.expirations.dates) > 5
    /\ \E i \in 1..5 :
           SingleResult(resp, upstream.expirations.dates[i]).status # 200
    /\ \E k \in 1..Len(resp.body.strikes) :
           LET e == resp.body.strikes[k]
               first == SingleResult(resp, upstream.expirations.dates[1])
               second == SingleResult(resp, upstream.expirations.dates[2])
           IN  /\ FieldOf(first, e.strike, GexOf) # 0
               /\ FieldOf(second, e.strike, GexOf) # 0
               /\ e.gex = FieldOf(first, e.strike, GexOf)
                           + FieldOf(second, e.strike, GexOf)
    /\ \E s \in StrikesSeen(
                    [args |-> resp.args,
                     body |-> [x_expirations |->
                                  <<upstream.expirations.dates[6]>>]]) :
           \A k \in 1..Len(resp.body.strikes) : resp.body.strikes[k].strike # s

\* C25: a request to get_exposures or get_exposures_matrix with
\* vix_regime = AUTO is evaluated as FALLING: the response says
\* vix_regime_used = FALLING and carries a vix_warning, and the aggregate
\* conductivity is the one of the same request made with FALLING, so an
\* aggregate regime (G-, D+, V+, C+) under AUTO yields MIXED and never
\* SELL-OFF-CONDUCIVE.
C25_AutoIsFalling ==
    (/\ resp.op \in {"get_exposures", "get_exposures_matrix"}
     /\ resp.status = 200
     /\ resp.args.vix_regime = "AUTO") =>
        /\ resp.body.vix_regime_used = "FALLING"
        /\ "vix_warning" \in DOMAIN resp.body
        /\ resp.body.vix_warning
        /\ resp.op = "get_exposures" =>
            LET aggregate == resp.body.aggregate
                falling == get_exposures(resp.args.expiration, "FALLING",
                                         NoCaches)
            IN  /\ aggregate = falling.body.aggregate
                /\ aggregate.conductivity # "SELL-OFF-CONDUCIVE"
                /\ aggregate.regime = [g |-> "-", d |-> "+", v |-> "+", c |-> "+"]
                       => aggregate.conductivity = "MIXED"

\* What holds of every such response: all of the above but the warning of
\* a get_exposures response.
AutoIsFallingInTheAggregate ==
    (/\ resp.op \in {"get_exposures", "get_exposures_matrix"}
     /\ resp.status = 200
     /\ resp.args.vix_regime = "AUTO") =>
        /\ resp.body.vix_regime_used = "FALLING"
        /\ resp.op = "get_exposures_matrix" => resp.body.vix_warning
        /\ resp.op = "get_exposures" =>
            /\ resp.body.aggregate =
                  get_exposures(resp.args.expiration, "FALLING",
                                NoCaches).body.aggregate
            /\ resp.body.aggregate.conductivity # "SELL-OFF-CONDUCIVE"

\* an AUTO request whose aggregate regime is (G-, D+, V+, C+)
AutoWithBullishAlignment ==
    /\ resp.op = "get_exposures"
    /\ resp.status = 200
    /\ resp.args.vix_regime = "AUTO"
    /\ resp.body.aggregate.regime = [g |-> "-", d |-> "+", v |-> "+", c |-> "+"]
    /\ resp.body.aggregate.conductivity = "MIXED"

\* C26: in every matrix result strike_details has an entry for exactly the
\* strikes listed in y_strikes: every strike of y_strikes has a detail, and
\* every key is the string form of a strike of y_strikes.
C26_DetailsExactlyForGridStrikes ==
    (resp.op = "get_exposures_matrix" /\ resp.status = 200) =>
        DOMAIN resp.body.strike_details =
            { StrikeKey(resp.body.y_strikes[j]) :
                  j \in 1..Len(resp.body.y_strikes) }

\* C26, amended: every strike of y_strikes has a detail, and the keys of
\* strike_details are the string forms of all strikes seen in the
\* successfully processed expirations, those cut out of the grid included.
C26_DetailsForEveryStrikeSeen ==
    (resp.op = "get_exposures_matrix" /\ resp.status = 200) =>
        /\ \A j \in 1..Len(resp.body.y_strikes) :
               StrikeKey(resp.body.y_strikes[j]) \in DOMAIN resp.body.strike_details
        /\ DOMAIN resp.body.strike_details =
               { StrikeKey(s) : s \in StrikesSeen(resp) }

\* a grid of 25 strikes whose details also hold a strike that was cut
C26_Witness ==
    /\ resp.op = "get_exposures_matrix"
    /\ resp.status = 200
    /\ Len(resp.body.y_strikes) = 25
    /\ \A j \in 1..25 : resp.body.y_strikes[j] # 100
    /\ StrikeKey(100) \in DOMAIN resp.body.strike_details
    /\ Cardinality(DOMAIN resp.body.strike_details) = 27

---------------------------------------------------------------------------
(* Properties of get_chain_data, checked under SpecChain *)

\* C22: caching does not change results: whatever calls came before, the
\* contract list get_chain_data returns for an expiration and a spot price
\* is the list a fresh fetch returns for them, also when an earlier call for
\* the same expiration was made with another spot price.
C22_CachedSameAsFresh ==
    Returns("get_chain_data") =>
        call.result = get_chain_data(call.args.expiration,
                                     call.args.spot_price, NoCaches).contracts

====
